---- MODULE Spec2Model ----
(***************************************************************************)
(* FastMailer (src/src/mailer/mailer.ts): the per-recipient rate-limit     *)
(* controller (checkRateLimit), the sendMail orchestration around it and   *)
(* the metrics it updates, as a state machine.                             *)
(*                                                                         *)
(* Time is Date.now() in milliseconds.  One action is one synchronous      *)
(* run of JavaScript: a sendMail call is suspended only at its awaits      *)
(* (the connection probe, the transaction connection, the SMTP dialogue).  *)
(* The loop of sendMail over its recipients is stepped one checkRateLimit  *)
(* call at a time; while a call is inside that loop nothing but the clock  *)
(* can move, as the loop is synchronous.                                   *)
(***************************************************************************)
EXTENDS Integers, Sequences, FiniteSets, TLC

\* ------------------------------------------------------------------ bounds
MaxTime == 3
MaxSends == 3
MaxFaults == 1
\* Longest header value and longest address text the composer is given.
MaxLen == 2
AddrLen == 5
MaxParts == 2

\* ------------------------------------------------------------- the inputs
A == "a@b.co"
B == "c@d.co"
X == "notanemail"

Calls == {"c1"}

\* validateEmail, on the addresses the requests use: X has no '@', so the
\* regular expression rejects it; A and B match it.
validateEmail(email) == email \in {A, B}

\* The mail requests of the model: to, cc and bcc, each a list of addresses.
Requests ==
    { [to |-> <<A>>, cc |-> <<>>, bcc |-> <<>>],
      [to |-> <<A>>, cc |-> <<>>, bcc |-> <<A>>],
      [to |-> <<B>>, cc |-> <<A>>, bcc |-> <<>>],
      [to |-> <<X>>, cc |-> <<>>, bcc |-> <<>>] }

\* The defaults the constructor merges the caller's rateLimiting under.
RateLimitDefaults ==
    [ perRecipient |-> TRUE, burstLimit |-> 5, cooldownPeriod |-> 1000,
      banDuration |-> 7200000, maxConsecutiveFailures |-> 3,
      failureCooldown |-> 300000, maxRapidAttempts |-> 10,
      rapidPeriod |-> 10000 ]

\* rateLimiting objects a caller passes (times in ticks): both keep the burst
\* limit of the rate-limit tests (2); they differ in how soon the failure
\* and the rapid-attempt bans strike and in how long a ban lasts.
UserRateLimiting ==
    { [ burstLimit |-> 2, cooldownPeriod |-> 2, banDuration |-> 1,
        maxConsecutiveFailures |-> 1, failureCooldown |-> 1,
        maxRapidAttempts |-> 4, rapidPeriod |-> 2 ],
      [ burstLimit |-> 2, cooldownPeriod |-> 2, banDuration |-> 2,
        maxConsecutiveFailures |-> 2, failureCooldown |-> 1,
        maxRapidAttempts |-> 3, rapidPeriod |-> 2 ] }

\* { ...defaults, ...config.rateLimiting }
Merge(defaults, given) ==
    [k \in DOMAIN defaults |-> IF k \in DOMAIN given THEN given[k] ELSE defaults[k]]

\* The logging config of the constructor: level || 'info', format || 'json',
\* customFields || [], and the destination the caller gave ("" when there is
\* none).
Logging(user) ==
    IF "logging" \in DOMAIN user
    THEN [ level |-> IF user.logging.level = "" THEN "info" ELSE user.logging.level,
           format |-> IF "format" \in DOMAIN user.logging
                      THEN user.logging.format ELSE "json",
           customFields |-> IF "customFields" \in DOMAIN user.logging
                            THEN user.logging.customFields ELSE << >>,
           destination |-> user.logging.destination ]
    ELSE [ level |-> "info", format |-> "json", customFields |-> << >>,
           destination |-> "" ]

\* The constructor's config normalisation of a caller's config: port 465
\* forces secure, retryAttempts || 3, keepAlive || false.
Configure(user) ==
    [ host |-> "smtp.relay", port |-> user.port,
      secure |-> IF user.port = 465 THEN TRUE ELSE user.secure,
      keepAlive |-> user.keepAlive,
      retryAttempts |-> IF user.retryAttempts = 0 THEN 3 ELSE user.retryAttempts,
      rateLimiting |-> Merge(RateLimitDefaults, user.rateLimiting),
      logging |-> Logging(user) ]

\* The config of the repository's tests: the secure port, nothing else set.
Constructor(userRateLimiting) ==
    Configure([ port |-> 465, secure |-> TRUE, keepAlive |-> FALSE,
                retryAttempts |-> 0, rateLimiting |-> userRateLimiting ])

VARIABLES
    config,       \* this.config, fixed by the constructor
    now,          \* Date.now()
    rateLimits,   \* this.rateLimits: recipient -> limit state
    metrics,      \* this.metrics
    pc,           \* where each sendMail call stands
    options,      \* the request of each call
    idx,          \* position of the call's rate-limit loop in its recipients
    socket,       \* whether the call's transaction socket is set
    result,       \* how the call's promise settled
    sends,        \* number of calls made on the instance
    faults,       \* number of failures the network and the file system dealt
    startTime,    \* startTime of each call's transaction
    connections,  \* history: connections each call has established so far
    verified,     \* what the latest direct verifyConnection() resolved with
    admitTimes,   \* history: the times of a recipient's latest admissions
    chain,        \* history: length of the unbroken rapid chain since first seen
    currentCommand, \* sendMail's local currentCommand, per call
    wire,         \* history: the commands each call's transaction has written
    awaiting,     \* commands each call has written and got no response to yet
    refused,      \* history: the last command of the call the relay answered 5xx
    report,       \* lastCommand of the call's error and command of its ledger entry
    logFilePath,  \* this.logFilePath, "" when undefined
    logged,       \* the entries appended to the log file
    culprit,      \* context.recipient of the call's validation error
    draft,        \* the request handed to buildMimeMessage
    mimeMessage,  \* the message buildMimeMessage returned
    entry,        \* history: this.rateLimits as each call found it
    inbox,        \* the data events on their way from the relay to each call
    heard,        \* history: the data event each sendCommand resolved with
    payload,      \* the data object handed to writeLog
    written       \* the log entry writeLog formatted from it

\* What the SMTP dialogue of a transaction adds to the state of a call.
dialogueVars == <<currentCommand, wire, awaiting, refused, report>>

\* What the masking of a log entry adds.
maskVars == <<payload, written>>

\* What the relay adds: its data events, each named by what it answers.
relayVars == <<inbox, heard>>

\* What logging, the validation error, the composer and the call history add.
restVars == <<logFilePath, logged, culprit, draft, mimeMessage, entry, maskVars>>

\* Everything the dialogue leaves alone besides the state of the calls.
otherVars == <<restVars, relayVars>>

\* Everything but the state of sendMail's calls.
sideVars == <<dialogueVars, otherVars>>

vars == <<config, now, rateLimits, metrics, pc, options, idx, socket, result,
          sends, faults, startTime, connections, verified, admitTimes, chain,
          currentCommand, wire, awaiting, refused, report,
          logFilePath, logged, culprit, draft, mimeMessage, entry,
          inbox, heard, payload, written>>

RL == config.rateLimiting

\* JavaScript's  v || d  and  v ?? d  on a number that is set.
OrDefault(v, d) == IF v = 0 THEN d ELSE v
Nullish(v, d) == v

NoError == "none"
RapidMsg == "Too many rapid sending attempts"
BannedMsg == "Recipient is temporarily banned due to rate limit violations or consecutive failures"
FailuresMsg == "Too many consecutive failures for recipient"
BurstMsg == "Rate limit exceeded for recipient"

\* details.type of the error objects, by the code they are thrown with.
ErrorType(code) ==
    CASE code \in {"ECONNECTION", "ETIMEDOUT"} -> "connection_error"
      [] code = "ERATELIMIT" -> "rate_limit_error"
      [] code = "EINVALIDEMAIL" -> "validation_error"
      [] code = "ECOMMAND" -> "command_error"
      [] code = "EATTACHMENT" -> "attachment_error"
      [] OTHER -> "smtp_error"

\* details.context of the error objects: connection errors carry the
\* configured host and port.
NoContext == [host |-> "", port |-> 0]
ErrorContext(code) ==
    IF ErrorType(code) = "connection_error"
    THEN [host |-> config.host, port |-> config.port]
    ELSE NoContext

NoResult == [status |-> "none", code |-> "", message |-> "", type |-> "",
             context |-> NoContext]
NoOptions == [to |-> << >>, cc |-> << >>, bcc |-> << >>]
Rejected(code, message) ==
    [status |-> "rejected", code |-> code, message |-> message,
     type |-> ErrorType(code), context |-> ErrorContext(code)]
Resolved == [status |-> "resolved", code |-> "", message |-> "", type |-> "",
             context |-> NoContext]

\* recipients = [...to, ...cc, ...bcc]
Recipients(o) == o.to \o o.cc \o o.bcc

Range(s) == {s[i] : i \in DOMAIN s}

\* ------------------------------------------------------- checkRateLimit
\* The state a recipient gets on first sighting.
NewLimits(t) ==
    [ count |-> 0, lastReset |-> t, banned |-> FALSE, banExpiry |-> 0,
      consecutiveFailures |-> 0, lastFailure |-> 0,
      rapidAttempts |-> 0, lastAttempt |-> t ]

Limits(r, t) == IF r \in DOMAIN rateLimits THEN rateLimits[r] ELSE NewLimits(t)

\* Each check maps s = [limits, metrics, error] to the same shape; error is
\* the message of the object it throws, NoError when it falls through.

\* Variant: bans only once rapidAttempts exceeds maxRapidAttempts.
RapidAttemptCheck_Exceeds(s, t) ==
    LET l == s.limits IN
    IF t - l.lastAttempt < OrDefault(RL.rapidPeriod, 10000)
    THEN LET n == l.rapidAttempts + 1 IN
         IF n > OrDefault(RL.maxRapidAttempts, 10)
         THEN [ limits |-> [l EXCEPT !.rapidAttempts = n,
                                     !.banned = TRUE,
                                     !.banExpiry = t + OrDefault(RL.banDuration, 7200000)],
                metrics |-> [s.metrics EXCEPT !.banned_recipients_count = @ + 1],
                error |-> RapidMsg ]
         ELSE [s EXCEPT !.limits = [l EXCEPT !.rapidAttempts = n, !.lastAttempt = t]]
    ELSE [s EXCEPT !.limits = [l EXCEPT !.rapidAttempts = 1, !.lastAttempt = t]]

\* Variant: the rapid-attempt ban is not counted in banned_recipients_count.
RapidAttemptCheck_Ungauged(s, t) ==
    LET l == s.limits IN
    IF t - l.lastAttempt < OrDefault(RL.rapidPeriod, 10000)
    THEN LET n == l.rapidAttempts + 1 IN
         IF n >= OrDefault(RL.maxRapidAttempts, 10)
         THEN [ limits |-> [l EXCEPT !.rapidAttempts = n,
                                     !.banned = TRUE,
                                     !.banExpiry = t + OrDefault(RL.banDuration, 7200000)],
                metrics |-> s.metrics,
                error |-> RapidMsg ]
         ELSE [s EXCEPT !.limits = [l EXCEPT !.rapidAttempts = n, !.lastAttempt = t]]
    ELSE [s EXCEPT !.limits = [l EXCEPT !.rapidAttempts = 1, !.lastAttempt = t]]

\* Check rapid sending attempts.
RapidAttemptCheck(s, t) ==
    LET l == s.limits IN
    IF t - l.lastAttempt < OrDefault(RL.rapidPeriod, 10000)
    THEN LET n == l.rapidAttempts + 1 IN
         IF n >= OrDefault(RL.maxRapidAttempts, 10)
         THEN [ limits |-> [l EXCEPT !.rapidAttempts = n,
                                     !.banned = TRUE,
                                     !.banExpiry = t + OrDefault(RL.banDuration, 7200000)],
                metrics |-> [s.metrics EXCEPT !.banned_recipients_count = @ + 1],
                error |-> RapidMsg ]
         ELSE [s EXCEPT !.limits = [l EXCEPT !.rapidAttempts = n, !.lastAttempt = t]]
    ELSE [s EXCEPT !.limits = [l EXCEPT !.rapidAttempts = 1, !.lastAttempt = t]]

\* Variant: an active ban is let through.
ActiveBanCheck_LetsThrough(s, t) ==
    LET l == s.limits IN
    IF l.banned /\ t >= l.banExpiry
    THEN [s EXCEPT !.limits = [l EXCEPT !.banned = FALSE,
                                        !.count = 0,
                                        !.lastReset = t,
                                        !.consecutiveFailures = 0,
                                        !.rapidAttempts = 0],
                   !.metrics = [@ EXCEPT !.banned_recipients_count = @ - 1]]
    ELSE s

\* Variant: clearing an expired ban leaves banned_recipients_count alone.
ActiveBanCheck_KeepsGauge(s, t) ==
    LET l == s.limits IN
    IF l.banned
    THEN IF t < l.banExpiry
         THEN [s EXCEPT !.metrics = [@ EXCEPT !.last_email_status = "failure",
                                              !.errors_rate_limit = @ + 1],
                        !.error = BannedMsg]
         ELSE [s EXCEPT !.limits = [l EXCEPT !.banned = FALSE,
                                             !.count = 0,
                                             !.lastReset = t,
                                             !.consecutiveFailures = 0,
                                             !.rapidAttempts = 0]]
    ELSE s

\* Check if currently banned.
ActiveBanCheck(s, t) ==
    LET l == s.limits IN
    IF l.banned
    THEN IF t < l.banExpiry
         THEN [s EXCEPT !.metrics = [@ EXCEPT !.last_email_status = "failure",
                                              !.errors_rate_limit = @ + 1],
                        !.error = BannedMsg]
         ELSE [s EXCEPT !.limits = [l EXCEPT !.banned = FALSE,
                                             !.count = 0,
                                             !.lastReset = t,
                                             !.consecutiveFailures = 0,
                                             !.rapidAttempts = 0],
                        !.metrics = [@ EXCEPT !.banned_recipients_count = @ - 1]]
    ELSE s

\* Variant: acts only once consecutiveFailures exceeds maxConsecutiveFailures.
ConsecutiveFailureCheck_Exceeds(s, t) ==
    LET l == s.limits IN
    IF l.consecutiveFailures > Nullish(RL.maxConsecutiveFailures, 3)
    THEN IF t - l.lastFailure < Nullish(RL.failureCooldown, 300000)
         THEN [ limits |-> [l EXCEPT !.banned = TRUE,
                                     !.banExpiry = t + Nullish(RL.banDuration, 7200000)],
                metrics |-> [s.metrics EXCEPT !.last_email_status = "failure",
                                              !.errors_rate_limit = @ + 1,
                                              !.banned_recipients_count = @ + 1],
                error |-> FailuresMsg ]
         ELSE [s EXCEPT !.limits = [l EXCEPT !.consecutiveFailures = 0]]
    ELSE s

\* Check consecutive failures.
ConsecutiveFailureCheck(s, t) ==
    LET l == s.limits IN
    IF l.consecutiveFailures >= Nullish(RL.maxConsecutiveFailures, 3)
    THEN IF t - l.lastFailure < Nullish(RL.failureCooldown, 300000)
         THEN [ limits |-> [l EXCEPT !.banned = TRUE,
                                     !.banExpiry = t + Nullish(RL.banDuration, 7200000)],
                metrics |-> [s.metrics EXCEPT !.last_email_status = "failure",
                                              !.errors_rate_limit = @ + 1,
                                              !.banned_recipients_count = @ + 1],
                error |-> FailuresMsg ]
         ELSE [s EXCEPT !.limits = [l EXCEPT !.consecutiveFailures = 0]]
    ELSE s

\* Variant: the window also resets at exactly cooldownPeriod.
WindowReset_AtPeriod(s, t) ==
    LET l == s.limits IN
    IF t - l.lastReset >= Nullish(RL.cooldownPeriod, 1000)
    THEN [s EXCEPT !.limits = [l EXCEPT !.count = 0, !.lastReset = t]]
    ELSE s

\* Variant: the reset forgets to restart the window.
WindowReset_KeepsStart(s, t) ==
    LET l == s.limits IN
    IF t - l.lastReset > Nullish(RL.cooldownPeriod, 1000)
    THEN [s EXCEPT !.limits = [l EXCEPT !.count = 0]]
    ELSE s

\* Reset count if cooldown period has passed.
WindowReset(s, t) ==
    LET l == s.limits IN
    IF t - l.lastReset > Nullish(RL.cooldownPeriod, 1000)
    THEN [s EXCEPT !.limits = [l EXCEPT !.count = 0, !.lastReset = t]]
    ELSE s

\* Variant: rejects only once count exceeds burstLimit.
BurstCheck_Exceeds(s, t) ==
    LET l == s.limits IN
    IF l.count > Nullish(RL.burstLimit, 5)
    THEN [s EXCEPT !.metrics = [@ EXCEPT !.rate_limit_exceeded_total = @ + 1,
                                         !.last_email_status = "failure",
                                         !.errors_rate_limit = @ + 1],
                   !.error = BurstMsg]
    ELSE [s EXCEPT !.limits = [l EXCEPT !.count = @ + 1]]

\* Variant: a burst rejection is not counted in rate_limit_exceeded_total.
BurstCheck_Uncounted(s, t) ==
    LET l == s.limits IN
    IF l.count >= Nullish(RL.burstLimit, 5)
    THEN [s EXCEPT !.metrics = [@ EXCEPT !.last_email_status = "failure",
                                         !.errors_rate_limit = @ + 1],
                   !.error = BurstMsg]
    ELSE [s EXCEPT !.limits = [l EXCEPT !.count = @ + 1]]

\* Check burst limit, and count the admitted send.
BurstCheck(s, t) ==
    LET l == s.limits IN
    IF l.count >= Nullish(RL.burstLimit, 5)
    THEN [s EXCEPT !.metrics = [@ EXCEPT !.rate_limit_exceeded_total = @ + 1,
                                         !.last_email_status = "failure",
                                         !.errors_rate_limit = @ + 1],
                   !.error = BurstMsg]
    ELSE [s EXCEPT !.limits = [l EXCEPT !.count = @ + 1]]

\* A throw ends the method: the later checks run only while none has thrown.
checkRateLimit(l, m, t) ==
    LET s0 == [limits |-> l, metrics |-> m, error |-> NoError]
        s1 == RapidAttemptCheck(s0, t)
        s2 == IF s1.error = NoError THEN ActiveBanCheck(s1, t) ELSE s1
        s3 == IF s2.error = NoError THEN ConsecutiveFailureCheck(s2, t) ELSE s2
        s4 == IF s3.error = NoError THEN WindowReset(s3, t) ELSE s3
    IN  IF s4.error = NoError THEN BurstCheck(s4, t) ELSE s4

\* ------------------------------------------------------------------ state
\* The cutoffs of the duration histogram, in milliseconds.
Buckets == {"0.1", "0.5", "1", "2", "5"}
CutoffMs == ("0.1" :> 100) @@ ("0.5" :> 500) @@ ("1" :> 1000) @@ ("2" :> 2000)
            @@ ("5" :> 5000)

\* failed_emails is the length of the ledger, duration_count and buckets are
\* email_send_duration_seconds.count and .buckets, errors_connection and
\* errors_rate_limit are errors_by_type.connection and .rate_limit,
\* errors_timeout is errors_by_type.timeout.
InitMetrics ==
    [ emails_total |-> 0, emails_successful |-> 0, emails_failed |-> 0,
      failed_emails |-> 0, duration_count |-> 0,
      buckets |-> [b \in Buckets |-> 0],
      last_email_status |-> "none", active_connections |-> 0,
      connection_errors |-> 0, errors_connection |-> 0, errors_timeout |-> 0,
      rate_limit_exceeded_total |-> 0, errors_rate_limit |-> 0,
      consecutive_failures |-> 0, banned_recipients_count |-> 0,
      total_retry_attempts |-> 0, successful_retries |-> 0,
      error_count_by_recipient |-> << >> ]

\* Variant: a failed send is not added to emails_total.
updateMetrics_Untotalled(m, success, sendTime) ==
    LET m1 == IF success
              THEN [m EXCEPT !.emails_total = @ + 1,
                             !.emails_successful = @ + 1,
                             !.last_email_status = "success",
                             !.consecutive_failures = 0]
              ELSE [m EXCEPT !.emails_failed = @ + 1,
                             !.last_email_status = "failure"]
    IN  [m1 EXCEPT !.duration_count = @ + 1,
                   !.buckets = [b \in Buckets |->
                                   IF sendTime <= CutoffMs[b] THEN @[b] + 1 ELSE @[b]]]

\* Variant: a duration equal to a cutoff is left out of that bucket.
updateMetrics_Strict(m, success, sendTime) ==
    LET m1 == IF success
              THEN [m EXCEPT !.emails_total = @ + 1,
                             !.emails_successful = @ + 1,
                             !.last_email_status = "success",
                             !.consecutive_failures = 0]
              ELSE [m EXCEPT !.emails_total = @ + 1,
                             !.emails_failed = @ + 1,
                             !.last_email_status = "failure"]
    IN  [m1 EXCEPT !.duration_count = @ + 1,
                   !.buckets = [b \in Buckets |->
                                   IF sendTime < CutoffMs[b] THEN @[b] + 1 ELSE @[b]]]

\* Variant: the duration of a failed send is not recorded.
updateMetrics_Untimed(m, success, sendTime) ==
    IF success
    THEN [m EXCEPT !.emails_total = @ + 1,
                   !.emails_successful = @ + 1,
                   !.last_email_status = "success",
                   !.consecutive_failures = 0,
                   !.duration_count = @ + 1,
                   !.buckets = [b \in Buckets |->
                                   IF sendTime <= CutoffMs[b] THEN @[b] + 1 ELSE @[b]]]
    ELSE [m EXCEPT !.emails_total = @ + 1,
                   !.emails_failed = @ + 1,
                   !.last_email_status = "failure"]

\* updateMetrics(success, sendTime), sendTime in milliseconds.
updateMetrics(m, success, sendTime) ==
    LET m1 == IF success
              THEN [m EXCEPT !.emails_total = @ + 1,
                             !.emails_successful = @ + 1,
                             !.last_email_status = "success",
                             !.consecutive_failures = 0]
              ELSE [m EXCEPT !.emails_total = @ + 1,
                             !.emails_failed = @ + 1,
                             !.last_email_status = "failure"]
    IN  [m1 EXCEPT !.duration_count = @ + 1,
                   !.buckets = [b \in Buckets |->
                                   IF sendTime <= CutoffMs[b] THEN @[b] + 1 ELSE @[b]]]

NoReport == [lastCommand |-> "", command |-> ""]

\* The constructor's log setup: the path of the destination, or undefined
\* when there is none or when the file cannot be set up.
LogFilePaths(cfg) ==
    IF cfg.logging.destination = "" THEN {""}
    ELSE {cfg.logging.destination, ""}

\* Nothing was handed to buildMimeMessage yet.
NoDraft == [subject |-> << >>, to |-> << >>, cc |-> << >>, attachments |-> << >>]
NoMessage == << >>

\* Nothing was handed to writeLog yet, and nothing formatted.
NoPayload == << >>
NoEntry == << >>

\* A fresh instance with one of these configs, on which these calls will be
\* made.
Started(configs, calls) ==
    /\ config \in configs
    /\ logFilePath \in LogFilePaths(config)
    /\ logged = << >>
    /\ culprit = [c \in calls |-> ""]
    /\ currentCommand = [c \in calls |-> ""]
    /\ wire = [c \in calls |-> << >>]
    /\ awaiting = [c \in calls |-> 0]
    /\ refused = [c \in calls |-> ""]
    /\ report = [c \in calls |-> NoReport]
    /\ now = 0
    /\ rateLimits = << >>
    /\ metrics = InitMetrics
    /\ pc = [c \in calls |-> "idle"]
    /\ options = [c \in calls |-> NoOptions]
    /\ idx = [c \in calls |-> 1]
    /\ socket = [c \in calls |-> FALSE]
    /\ result = [c \in calls |-> NoResult]
    /\ sends = 0
    /\ faults = 0
    /\ startTime = [c \in calls |-> 0]
    /\ connections = [c \in calls |-> 0]
    /\ verified = "none"
    /\ admitTimes = << >>
    /\ chain = << >>
    /\ entry = [c \in calls |-> << >>]
    /\ inbox = [c \in calls |-> << >>]
    /\ heard = [c \in calls |-> << >>]

Created(configs) == Started(configs, Calls)

InitWith(configs) ==
    /\ Created(configs)
    /\ draft = NoDraft
    /\ mimeMessage = NoMessage
    /\ payload = NoPayload
    /\ written = NoEntry

Init == InitWith({Constructor(u) : u \in UserRateLimiting})

\* Variant: the rate-limit loop yields between its turns.
InLoop_Never == FALSE

\* The synchronous rate-limit loop of some call is running.
InLoop == \E c \in DOMAIN pc : pc[c] = "ratelimit"

\* Date.now() advances.
Tick ==
    /\ now < MaxTime
    /\ now' = now + 1
    /\ UNCHANGED <<config, rateLimits, metrics, pc, options, idx, socket,
                   result, sends, faults, startTime, connections, verified,
                   admitTimes, chain>>

\* sendMail(o) is called: it starts the connection probe and awaits it.
SendMail(c, o) ==
    /\ ~InLoop
    /\ pc[c] = "idle"
    /\ sends < MaxSends
    /\ sends' = sends + 1
    /\ pc' = [pc EXCEPT ![c] = "probe"]
    /\ options' = [options EXCEPT ![c] = o]
    /\ idx' = [idx EXCEPT ![c] = 1]
    /\ socket' = [socket EXCEPT ![c] = FALSE]
    /\ result' = [result EXCEPT ![c] = NoResult]
    /\ connections' = [connections EXCEPT ![c] = 0]
    /\ UNCHANGED <<config, now, rateLimits, metrics, faults, startTime, verified,
                   admitTimes, chain>>

\* The network or the file system fails once more.
Fault == faults < MaxFaults /\ faults' = faults + 1

\* Variant: a connection that is established without being counted.
Opened_Unseen(c) == connections

\* createConnection called on behalf of call c has established its socket.
Opened(c) == [connections EXCEPT ![c] = @ + 1]

\* Variant: ending the socket takes the connection off the gauge again.
Connected_Ended(m) == m

\* createConnection resolves: the connect callback.
Connected(m) == [m EXCEPT !.active_connections = @ + 1]

\* Variant: a timeout is counted as a connection error too.
ConnectionRejected_Both(m, kind) ==
    [m EXCEPT !.connection_errors = @ + 1,
              !.last_email_status = "failure",
              !.errors_connection = @ + 1,
              !.errors_timeout = IF kind = "timeout" THEN @ + 1 ELSE @]

\* createConnection rejects: the socket's 'timeout' or 'error' handler.
ConnectionRejected(m, kind) ==
    [m EXCEPT !.connection_errors = @ + 1,
              !.last_email_status = "failure",
              !.errors_connection = IF kind = "error" THEN @ + 1 ELSE @,
              !.errors_timeout = IF kind = "timeout" THEN @ + 1 ELSE @]

\* Variant: the catch of verifyConnection leaves errors_by_type alone.
verifyConnection_Uncounted(m, outcome) ==
    IF outcome = "connect"
    THEN [metrics |-> Connected(m), value |-> TRUE]
    ELSE [metrics |-> [ConnectionRejected(m, outcome) EXCEPT
                          !.last_email_status = "failure"],
          value |-> FALSE]

\* verifyConnection(): the probe either connects (and is ended at once) or
\* fails with an 'error' or a 'timeout'; value is what the promise resolves
\* with.
verifyConnection(m, outcome) ==
    IF outcome = "connect"
    THEN [metrics |-> Connected(m), value |-> TRUE]
    ELSE [metrics |-> [ConnectionRejected(m, outcome) EXCEPT
                          !.last_email_status = "failure",
                          !.errors_connection = @ + 1],
          value |-> FALSE]

\* A direct call of verifyConnection() by the application.
VerifyConnection(outcome) ==
    /\ ~InLoop
    /\ sends < MaxSends
    /\ sends' = sends + 1
    /\ IF outcome = "connect" THEN UNCHANGED faults ELSE Fault
    /\ LET v == verifyConnection(metrics, outcome)
       IN  /\ metrics' = v.metrics
           /\ verified' = IF v.value THEN "true" ELSE "false"
    /\ UNCHANGED <<config, now, rateLimits, pc, options, idx, socket, result,
                   startTime, connections, admitTimes, chain>>

\* The promise of call c settles with res: the call and its locals are gone.
Settle(c, res) ==
    /\ pc' = [pc EXCEPT ![c] = "idle"]
    /\ result' = [result EXCEPT ![c] = res]
    /\ options' = [options EXCEPT ![c] = NoOptions]
    /\ idx' = [idx EXCEPT ![c] = 1]
    /\ socket' = [socket EXCEPT ![c] = FALSE]
    /\ startTime' = [startTime EXCEPT ![c] = 0]

\* Variant: a failed probe is counted as a failed send.
ProbeFail_Counted(c, kind) ==
    /\ ~InLoop
    /\ Fault
    /\ pc[c] = "probe"
    /\ LET v == verifyConnection(metrics, kind)
       IN  metrics' = [updateMetrics(v.metrics, FALSE, 0) EXCEPT
                          !.last_email_status = "failure",
                          !.errors_connection = @ + 1]
    /\ Settle(c, Rejected("ECONNECTION", "SMTP connection failed, cannot send email"))
    /\ UNCHANGED <<config, now, rateLimits, sends, connections, verified,
                   admitTimes, chain>>

\* The probe of verifyConnection fails: verifyConnection resolves false and
\* sendMail throws ECONNECTION.
ProbeFail(c, kind) ==
    /\ ~InLoop
    /\ Fault
    /\ pc[c] = "probe"
    /\ LET v == verifyConnection(metrics, kind)
       IN  metrics' = [v.metrics EXCEPT !.last_email_status = "failure",
                                        !.errors_connection = @ + 1]
    /\ Settle(c, Rejected("ECONNECTION", "SMTP connection failed, cannot send email"))
    /\ UNCHANGED <<config, now, rateLimits, sends, connections, verified,
                   admitTimes, chain>>

\* Variant: the rate-limit loop runs whatever perRecipient says.
ProbeOk_Limits(c) ==
    /\ ~InLoop
    /\ pc[c] = "probe"
    /\ connections' = Opened(c)
    /\ LET rs == Recipients(options[c])
           bad == {i \in DOMAIN rs : ~validateEmail(rs[i])}
           m1 == verifyConnection(metrics, "connect").metrics
       IN  IF bad # {}
           THEN /\ metrics' = [m1 EXCEPT !.last_email_status = "failure"]
                /\ Settle(c, Rejected("EINVALIDEMAIL", "Invalid email format"))
           ELSE /\ metrics' = m1
                /\ pc' = [pc EXCEPT ![c] = "ratelimit"]
                /\ UNCHANGED <<options, idx, socket, result, startTime>>
    /\ UNCHANGED <<config, now, rateLimits, sends, faults, verified, admitTimes, chain>>

\* The probe connects: verifyConnection resolves true, and sendMail validates
\* every recipient, then enters the rate-limit loop or the transaction.
ProbeOk(c) ==
    /\ ~InLoop
    /\ pc[c] = "probe"
    /\ connections' = Opened(c)
    /\ LET rs == Recipients(options[c])
           bad == {i \in DOMAIN rs : ~validateEmail(rs[i])}
           m1 == verifyConnection(metrics, "connect").metrics
       IN  IF bad # {}
           THEN /\ metrics' = [m1 EXCEPT !.last_email_status = "failure"]
                /\ Settle(c, Rejected("EINVALIDEMAIL", "Invalid email format"))
           ELSE /\ metrics' = m1
                /\ pc' = [pc EXCEPT ![c] =
                              IF RL.perRecipient THEN "ratelimit" ELSE "connecting"]
                /\ startTime' = [startTime EXCEPT ![c] =
                                     IF RL.perRecipient THEN @ ELSE now]
                /\ UNCHANGED <<options, idx, socket, result>>
    /\ UNCHANGED <<config, now, rateLimits, sends, faults, verified, admitTimes, chain>>

\* History of the latest admissions of a recipient (burstLimit + 1 of them).
Latest(times, t) ==
    LET all == Append(times, t)
    IN  IF Len(all) > RL.burstLimit + 1 THEN Tail(all) ELSE all

Broken == 0 - 1

\* One turn of  for (const recipient of recipients) this.checkRateLimit(recipient).
SendMailCheckRateLimit(c) ==
    /\ pc[c] = "ratelimit"
    /\ LET rs == Recipients(options[c])
           r == rs[idx[c]]
           old == Limits(r, now)
           s == checkRateLimit(old, metrics, now)
           seen == r \in DOMAIN rateLimits
           k == IF seen THEN chain[r] ELSE 0
       IN  /\ rateLimits' = [x \in DOMAIN rateLimits \cup {r} |->
                                IF x = r THEN s.limits ELSE rateLimits[x]]
           /\ metrics' = s.metrics
           /\ chain' = [x \in DOMAIN chain \cup {r} |->
                           IF x # r THEN chain[x]
                           ELSE IF k # Broken /\ k < RL.maxRapidAttempts
                                   /\ now - old.lastAttempt < RL.rapidPeriod
                                THEN k + 1 ELSE Broken]
           /\ admitTimes' = [x \in DOMAIN admitTimes \cup {r} |->
                                IF x # r THEN admitTimes[x]
                                ELSE LET was == IF seen THEN admitTimes[r] ELSE << >>
                                     IN  IF s.error = NoError THEN Latest(was, now) ELSE was]
           /\ IF s.error # NoError
              THEN Settle(c, Rejected("ERATELIMIT", s.error))
              ELSE /\ UNCHANGED <<options, socket, result>>
                   /\ IF idx[c] < Len(rs)
                      THEN /\ idx' = [idx EXCEPT ![c] = @ + 1]
                           /\ UNCHANGED <<pc, startTime>>
                      ELSE /\ pc' = [pc EXCEPT ![c] = "connecting"]
                           /\ startTime' = [startTime EXCEPT ![c] = now]
                           /\ UNCHANGED idx
    /\ UNCHANGED <<config, now, sends, faults, connections, verified>>

\* ------------------------------------------------------- the transaction
\* Variant: the finally block releases the socket whatever keepAlive says.
Finally_Releases(c, m) ==
    IF socket[c]
    THEN [m EXCEPT !.active_connections = @ - 1]
    ELSE m

\* The finally block of sendMail.
Finally(c, m) ==
    IF socket[c] /\ ~config.keepAlive
    THEN [m EXCEPT !.active_connections = @ - 1]
    ELSE m

\* Variant: the catch block counts a recipient once however often it is listed.
OnFailure_Once(c, m, code) ==
    LET rs == Recipients(options[c])
        counts == m.error_count_by_recipient
        m1 == [m EXCEPT !.failed_emails = @ + 1,
                        !.error_count_by_recipient =
                            [r \in DOMAIN counts \cup Range(rs) |->
                                (IF r \in DOMAIN counts THEN counts[r] ELSE 0)
                                + (IF r \in Range(rs) THEN 1 ELSE 0)]]
        m2 == updateMetrics(m1, FALSE, now - startTime[c])
        m3 == [m2 EXCEPT !.last_email_status = "failure",
                         !.consecutive_failures = @ + 1,
                         !.errors_connection =
                             IF ErrorType(code) = "connection_error"
                             THEN @ + 1 ELSE @]
    IN  /\ rateLimits' =
              [r \in DOMAIN rateLimits |->
                  IF r \in Range(rs)
                  THEN [rateLimits[r] EXCEPT !.consecutiveFailures = @ + 1,
                                             !.lastFailure = now]
                  ELSE rateLimits[r]]
        /\ metrics' = Finally(c, m3)

\* The catch block of sendMail, for an error thrown with the given code, and
\* the finally block after it.
OnFailure(c, m, code) ==
    LET rs == Recipients(options[c])
        hits(r) == Cardinality({i \in DOMAIN rs : rs[i] = r})
        counts == m.error_count_by_recipient
        m1 == [m EXCEPT !.failed_emails = @ + 1,
                        !.error_count_by_recipient =
                            [r \in DOMAIN counts \cup Range(rs) |->
                                (IF r \in DOMAIN counts THEN counts[r] ELSE 0)
                                + hits(r)]]
        m2 == updateMetrics(m1, FALSE, now - startTime[c])
        m3 == [m2 EXCEPT !.last_email_status = "failure",
                         !.consecutive_failures = @ + 1,
                         !.errors_connection =
                             IF ErrorType(code) = "connection_error"
                             THEN @ + 1 ELSE @]
    IN  /\ rateLimits' =
              IF RL.perRecipient
              THEN [r \in DOMAIN rateLimits |->
                       IF r \in Range(rs)
                       THEN [rateLimits[r] EXCEPT
                                !.consecutiveFailures = @ + hits(r),
                                !.lastFailure = now]
                       ELSE rateLimits[r]]
              ELSE rateLimits
        /\ metrics' = Finally(c, m3)

\* createConnection of the transaction resolves.
ConnectOk(c) ==
    /\ ~InLoop
    /\ pc[c] = "connecting"
    /\ metrics' = Connected(metrics)
    /\ socket' = [socket EXCEPT ![c] = TRUE]
    /\ connections' = Opened(c)
    /\ pc' = [pc EXCEPT ![c] = "dialogue"]
    /\ UNCHANGED <<config, now, rateLimits, options, idx, result, sends, faults,
                   startTime, verified, admitTimes, chain>>

\* createConnection of the transaction rejects.
ConnectFail(c, kind) ==
    /\ ~InLoop
    /\ Fault
    /\ pc[c] = "connecting"
    /\ LET code == IF kind = "timeout" THEN "ETIMEDOUT" ELSE "ECONNECTION"
       IN  /\ OnFailure(c, ConnectionRejected(metrics, kind), code)
           /\ Settle(c, Rejected(code, "connection failed"))
    /\ UNCHANGED <<config, now, sends, connections, verified, admitTimes, chain>>

\* A write of sendCommand fails.
CommandFail(c) ==
    /\ ~InLoop
    /\ Fault
    /\ pc[c] = "dialogue"
    /\ OnFailure(c, [metrics EXCEPT !.last_email_status = "failure"], "ECOMMAND")
    /\ Settle(c, Rejected("ECOMMAND", "Failed to send command"))
    /\ UNCHANGED <<config, now, sends, connections, verified, admitTimes, chain>>

\* buildMimeMessage cannot read an attachment file of the request.
AttachmentFail(c) ==
    /\ ~InLoop
    /\ Fault
    /\ pc[c] = "dialogue"
    /\ OnFailure(c, [metrics EXCEPT !.last_email_status = "failure"], "EATTACHMENT")
    /\ Settle(c, Rejected("EATTACHMENT", "Failed to read attachment file"))
    /\ UNCHANGED <<config, now, sends, connections, verified, admitTimes, chain>>

\* The relay falls silent, or the socket fails, while sendCommand awaits a
\* reply: the 'timeout' or 'error' handler that createConnection installed
\* runs, its reject() finds the promise of createConnection already
\* resolved, and the promise of sendCommand is never settled.
SocketEvent(c, kind) ==
    /\ ~InLoop
    /\ Fault
    /\ pc[c] = "dialogue"
    /\ metrics' = ConnectionRejected(metrics, kind)
    /\ pc' = [pc EXCEPT ![c] = "hung"]
    /\ UNCHANGED <<config, now, rateLimits, options, idx, socket, result, sends,
                   startTime, connections, verified, admitTimes, chain>>

\* Variant: a success that leaves consecutiveFailures alone.
SendSuccess_KeepsFailures(c) ==
    /\ ~InLoop
    /\ pc[c] = "dialogue"
    /\ metrics' = Finally(c, updateMetrics(metrics, TRUE, now - startTime[c]))
    /\ Settle(c, Resolved)
    /\ UNCHANGED <<config, now, rateLimits, sends, faults, connections, verified,
                   admitTimes, chain>>

\* Every command of the dialogue got its response: the send succeeded.
SendSuccess(c) ==
    /\ ~InLoop
    /\ pc[c] = "dialogue"
    /\ LET rs == Recipients(options[c]) IN
       rateLimits' =
           IF RL.perRecipient
           THEN [r \in DOMAIN rateLimits |->
                    IF r \in Range(rs)
                    THEN [rateLimits[r] EXCEPT !.consecutiveFailures = 0]
                    ELSE rateLimits[r]]
           ELSE rateLimits
    /\ metrics' = Finally(c, updateMetrics(metrics, TRUE, now - startTime[c]))
    /\ Settle(c, Resolved)
    /\ UNCHANGED <<config, now, sends, faults, connections, verified, admitTimes, chain>>

Outcomes == {"error", "timeout"}

\* The transaction's dialogue is one step here (ConnectOk to SendSuccess or
\* to a failure); DialogueSpec below takes it command by command.
Next ==
    \/ Tick /\ UNCHANGED sideVars
    \/ \E c \in Calls, o \in Requests : SendMail(c, o) /\ UNCHANGED sideVars
    \/ \E outcome \in Outcomes \cup {"connect"} :
          VerifyConnection(outcome) /\ UNCHANGED sideVars
    \/ \E c \in Calls, kind \in Outcomes : ProbeFail(c, kind) /\ UNCHANGED sideVars
    \/ \E c \in Calls : ProbeOk(c) /\ UNCHANGED sideVars
    \/ \E c \in Calls : SendMailCheckRateLimit(c) /\ UNCHANGED sideVars
    \/ \E c \in Calls : ConnectOk(c) /\ UNCHANGED sideVars
    \/ \E c \in Calls, kind \in Outcomes : ConnectFail(c, kind) /\ UNCHANGED sideVars
    \/ \E c \in Calls : CommandFail(c) /\ UNCHANGED sideVars
    \/ \E c \in Calls : AttachmentFail(c) /\ UNCHANGED sideVars
    \/ \E c \in Calls, kind \in Outcomes : SocketEvent(c, kind) /\ UNCHANGED sideVars
    \/ \E c \in Calls : SendSuccess(c) /\ UNCHANGED sideVars

Spec == Init /\ [][Next]_vars

\* Callers' configs with the switches set: rate limiting per recipient turned
\* off (with and without keepAlive), besides the configs of Init.
OptionConfigs ==
    { Configure([ port |-> 465, secure |-> TRUE, keepAlive |-> k,
                  retryAttempts |-> 0,
                  rateLimiting |-> ("perRecipient" :> FALSE) @@ u ]) :
        k \in BOOLEAN, u \in UserRateLimiting }
    \cup {Constructor(u) : u \in UserRateLimiting}

\* sendMail on instances with and without per-recipient rate limiting and
\* keepAlive.
OptionSpec == InitWith(OptionConfigs) /\ [][Next]_vars

\* What the event loop does for a pending call c: every callback and
\* continuation of sendMail, whichever way the relay answers.
CallStep(c) ==
    /\ \/ ProbeOk(c)
       \/ \E kind \in Outcomes : ProbeFail(c, kind)
       \/ SendMailCheckRateLimit(c)
       \/ ConnectOk(c)
       \/ \E kind \in Outcomes : ConnectFail(c, kind)
       \/ CommandFail(c)
       \/ AttachmentFail(c)
       \/ \E kind \in Outcomes : SocketEvent(c, kind)
       \/ SendSuccess(c)
    /\ UNCHANGED sideVars

\* The event loop never leaves a runnable callback of a pending call unrun.
FairSpec == Spec /\ \A c \in Calls : WF_vars(CallStep(c))

\* ---------------------------------------------- the dialogue, by command
\* Everything but the dialogue's own variables.
sendVars == <<config, now, rateLimits, metrics, pc, options, idx, socket, result,
              sends, faults, startTime, connections, verified, admitTimes, chain>>

\* A line sendCommand writes: an SMTP verb and its argument.
Cmd(verb, arg) == [verb |-> verb, arg |-> arg]

\* Variant: the blind-copy recipients are announced before the copies.
Following_BccFirst(cfg, o, w) ==
    LET last == w[Len(w)]
        rs == o.to \o o.bcc \o o.cc
        n == Cardinality({i \in DOMAIN w : w[i].verb = "RCPT TO"})
        Rcpt == IF n < Len(rs)
                THEN [current |-> "RCPT TO", cmd |-> Cmd("RCPT TO", rs[n + 1])]
                ELSE [current |-> "DATA", cmd |-> Cmd("DATA", "")]
    IN  CASE last.verb = "EHLO" ->
                 IF ~cfg.secure
                 THEN [current |-> "STARTTLS", cmd |-> Cmd("STARTTLS", "")]
                 ELSE [current |-> "AUTH", cmd |-> Cmd("AUTH LOGIN", "")]
          [] last.verb = "STARTTLS" -> [current |-> "AUTH", cmd |-> Cmd("AUTH LOGIN", "")]
          [] last.verb = "AUTH LOGIN" -> [current |-> "AUTH", cmd |-> Cmd("base64", "user")]
          [] last = Cmd("base64", "user") -> [current |-> "AUTH", cmd |-> Cmd("base64", "pass")]
          [] last = Cmd("base64", "pass") -> [current |-> "MAIL FROM", cmd |-> Cmd("MAIL FROM", "from")]
          [] last.verb \in {"MAIL FROM", "RCPT TO"} -> Rcpt
          [] last.verb = "DATA" -> [current |-> "DATA", cmd |-> Cmd("payload", "")]

\* Variant: the payload is written under a currentCommand of its own.
Following_NamesPayload(cfg, o, w) ==
    LET last == w[Len(w)]
        rs == Recipients(o)
        n == Cardinality({i \in DOMAIN w : w[i].verb = "RCPT TO"})
        Rcpt == IF n < Len(rs)
                THEN [current |-> "RCPT TO", cmd |-> Cmd("RCPT TO", rs[n + 1])]
                ELSE [current |-> "DATA", cmd |-> Cmd("DATA", "")]
    IN  CASE last.verb = "EHLO" ->
                 IF ~cfg.secure
                 THEN [current |-> "STARTTLS", cmd |-> Cmd("STARTTLS", "")]
                 ELSE [current |-> "AUTH", cmd |-> Cmd("AUTH LOGIN", "")]
          [] last.verb = "STARTTLS" -> [current |-> "AUTH", cmd |-> Cmd("AUTH LOGIN", "")]
          [] last.verb = "AUTH LOGIN" -> [current |-> "AUTH", cmd |-> Cmd("base64", "user")]
          [] last = Cmd("base64", "user") -> [current |-> "AUTH", cmd |-> Cmd("base64", "pass")]
          [] last = Cmd("base64", "pass") -> [current |-> "MAIL FROM", cmd |-> Cmd("MAIL FROM", "from")]
          [] last.verb \in {"MAIL FROM", "RCPT TO"} -> Rcpt
          [] last.verb = "DATA" -> [current |-> "PAYLOAD", cmd |-> Cmd("payload", "")]

\* sendMail's try block after the await of the command last written (the
\* last of w) returns: the currentCommand it sets and the command it writes
\* next.  The RCPT TO loop runs over recipients = [...to, ...cc, ...bcc].
Following(cfg, o, w) ==
    LET last == w[Len(w)]
        rs == Recipients(o)
        n == Cardinality({i \in DOMAIN w : w[i].verb = "RCPT TO"})
        Rcpt == IF n < Len(rs)
                THEN [current |-> "RCPT TO", cmd |-> Cmd("RCPT TO", rs[n + 1])]
                ELSE [current |-> "DATA", cmd |-> Cmd("DATA", "")]
    IN  CASE last.verb = "EHLO" ->
                 IF ~cfg.secure
                 THEN [current |-> "STARTTLS", cmd |-> Cmd("STARTTLS", "")]
                 ELSE [current |-> "AUTH", cmd |-> Cmd("AUTH LOGIN", "")]
          [] last.verb = "STARTTLS" -> [current |-> "AUTH", cmd |-> Cmd("AUTH LOGIN", "")]
          [] last.verb = "AUTH LOGIN" -> [current |-> "AUTH", cmd |-> Cmd("base64", "user")]
          [] last = Cmd("base64", "user") -> [current |-> "AUTH", cmd |-> Cmd("base64", "pass")]
          [] last = Cmd("base64", "pass") -> [current |-> "MAIL FROM", cmd |-> Cmd("MAIL FROM", "from")]
          [] last.verb \in {"MAIL FROM", "RCPT TO"} -> Rcpt
          [] last.verb = "DATA" -> [current |-> "DATA", cmd |-> Cmd("payload", "")]

\* sendMail(o) is called: its transaction has written nothing yet.
Call(c, o) ==
    /\ SendMail(c, o)
    /\ currentCommand' = [currentCommand EXCEPT ![c] = ""]
    /\ wire' = [wire EXCEPT ![c] = << >>]
    /\ awaiting' = [awaiting EXCEPT ![c] = 0]
    /\ refused' = [refused EXCEPT ![c] = ""]
    /\ report' = [report EXCEPT ![c] = NoReport]

\* createConnection of the transaction resolves and sendMail writes EHLO.
Begin(c) ==
    /\ ConnectOk(c)
    /\ currentCommand' = [currentCommand EXCEPT ![c] = "EHLO"]
    /\ wire' = [wire EXCEPT ![c] = <<Cmd("EHLO", config.host)>>]
    /\ awaiting' = [awaiting EXCEPT ![c] = @ + 1]
    /\ UNCHANGED <<refused, report>>

\* The replies a relay gives: sendCommand resolves with any of them.
Replies == {"250", "550"}

\* Variant: sendMail gives up on a 5xx reply (it stops writing).
Refusal_Heeded(reply) == reply = "550"

\* Whether sendMail treats the response as a refusal: it never looks at it.
Refusal(reply) == FALSE

\* The relay answers the outstanding command (a 'data' event): sendCommand
\* resolves and sendMail writes its next command, or, after the payload,
\* finishes the send.
Reply(c, reply) ==
    /\ ~InLoop
    /\ pc[c] = "dialogue"
    /\ awaiting[c] > 0
    /\ ~Refusal(reply)
    /\ refused' = [refused EXCEPT ![c] =
                       IF reply = "550" THEN wire[c][Len(wire[c])].verb ELSE @]
    /\ IF wire[c][Len(wire[c])].verb = "payload"
       THEN /\ SendSuccess(c)
            /\ awaiting' = [awaiting EXCEPT ![c] = @ - 1]
            /\ UNCHANGED <<currentCommand, wire, report>>
       ELSE LET f == Following(config, options[c], wire[c])
            IN  /\ currentCommand' = [currentCommand EXCEPT ![c] = f.current]
                /\ wire' = [wire EXCEPT ![c] = Append(@, f.cmd)]
                /\ awaiting' = [awaiting EXCEPT ![c] = @ - 1 + 1]
                /\ UNCHANGED report
                /\ UNCHANGED sendVars

\* The error sendMail's catch builds, and the ledger entry it pushes, both
\* carry currentCommand.
Reported(c) ==
    [report EXCEPT ![c] = [lastCommand |-> currentCommand[c],
                           command |-> currentCommand[c]]]

\* Variant: a failed transaction connection is retried while retryAttempts
\* allows.
BeginFail_Retries(c, kind) ==
    /\ ~InLoop
    /\ Fault
    /\ pc[c] = "connecting"
    /\ metrics' = [ConnectionRejected(metrics, kind) EXCEPT
                      !.total_retry_attempts = @ + 1]
    /\ UNCHANGED <<config, now, rateLimits, pc, options, idx, socket, result,
                   sends, startTime, connections, verified, admitTimes, chain>>
    /\ UNCHANGED dialogueVars

\* createConnection of the transaction rejects: nothing was written.
BeginFail(c, kind) ==
    /\ ConnectFail(c, kind)
    /\ report' = Reported(c)
    /\ UNCHANGED <<currentCommand, wire, awaiting, refused>>

\* The write of the outstanding command fails: sendCommand rejects ECOMMAND.
WriteFail(c) ==
    /\ awaiting[c] > 0
    /\ CommandFail(c)
    /\ awaiting' = [awaiting EXCEPT ![c] = @ - 1]
    /\ report' = Reported(c)
    /\ UNCHANGED <<currentCommand, wire, refused>>

\* The relay answers DATA and buildMimeMessage cannot read an attachment.
BuildFail(c, reply) ==
    /\ awaiting[c] > 0
    /\ wire[c][Len(wire[c])].verb = "DATA"
    /\ AttachmentFail(c)
    /\ awaiting' = [awaiting EXCEPT ![c] = @ - 1]
    /\ refused' = [refused EXCEPT ![c] = IF reply = "550" THEN "DATA" ELSE @]
    /\ report' = Reported(c)
    /\ UNCHANGED <<currentCommand, wire>>

\* The relay answers DATA and buildMimeMessage throws a TypeError: the request
\* has no subject (MailOptions is erased at run time) and sanitizeHeader calls
\* replace on undefined. The error has a message, no code and no details, so
\* the catch block surfaces it with its fallbacks.
BuildThrow(c, reply) ==
    /\ ~InLoop
    /\ pc[c] = "dialogue"
    /\ awaiting[c] > 0
    /\ wire[c][Len(wire[c])].verb = "DATA"
    /\ OnFailure(c, metrics, "EUNKNOWN")
    /\ Settle(c, Rejected("EUNKNOWN", "Cannot read properties of undefined"))
    /\ awaiting' = [awaiting EXCEPT ![c] = @ - 1]
    /\ refused' = [refused EXCEPT ![c] = IF reply = "550" THEN "DATA" ELSE @]
    /\ report' = Reported(c)
    /\ UNCHANGED <<config, now, sends, faults, connections, verified, admitTimes,
                   chain, currentCommand, wire>>

\* The callers' configs of the dialogue: the secure port, and the submission
\* port with and without secure.
DialogueConfigs ==
    { Configure([ port |-> p, secure |-> sec, keepAlive |-> FALSE,
                  retryAttempts |-> n, rateLimiting |-> u ]) :
        p \in {465, 587}, sec \in BOOLEAN, n \in {0, 5}, u \in UserRateLimiting }

DialogueInit == InitWith(DialogueConfigs)

\* The requests of the dialogue: one more, with a copy and a blind copy.
DialogueRequests == Requests \cup {[to |-> <<A>>, cc |-> <<B>>, bcc |-> <<A>>]}

DialogueNext ==
    \/ \E c \in Calls, o \in DialogueRequests : Call(c, o) /\ UNCHANGED otherVars
    \/ \E c \in Calls, kind \in Outcomes : ProbeFail(c, kind) /\ UNCHANGED sideVars
    \/ \E c \in Calls : ProbeOk(c) /\ UNCHANGED sideVars
    \/ \E c \in Calls : SendMailCheckRateLimit(c) /\ UNCHANGED sideVars
    \/ \E c \in Calls : Begin(c) /\ UNCHANGED otherVars
    \/ \E c \in Calls, kind \in Outcomes : BeginFail(c, kind) /\ UNCHANGED otherVars
    \/ \E c \in Calls, reply \in Replies : Reply(c, reply) /\ UNCHANGED otherVars
    \/ \E c \in Calls : WriteFail(c) /\ UNCHANGED otherVars
    \/ \E c \in Calls, reply \in Replies : BuildFail(c, reply) /\ UNCHANGED otherVars
    \/ \E c \in Calls, kind \in Outcomes : SocketEvent(c, kind) /\ UNCHANGED sideVars

\* sendMail with its transaction taken one command at a time, at a clock
\* that stands still.
DialogueSpec == DialogueInit /\ [][DialogueNext]_vars

ErrorNext ==
    \/ DialogueNext
    \/ \E c \in Calls, reply \in Replies : BuildThrow(c, reply) /\ UNCHANGED otherVars

\* The dialogue, with requests that make a statement of the try block throw.
ErrorSpec == DialogueInit /\ [][ErrorNext]_vars

\* ---------------------------------------------------------------- logging
\* Variant: the configured level is a floor (error above warn above info).
shouldLog_Floor(level) ==
    LET rank == [l \in {"debug", "info", "warn", "error"} |->
                    CASE l = "debug" -> 0 [] l = "info" -> 1
                      [] l = "warn" -> 2 [] l = "error" -> 3]
    IN  rank[level] >= rank[config.logging.level]

\* shouldLog: debug logs everything, the other levels their own events.
shouldLog(level) ==
    IF config.logging.level = "debug" THEN TRUE
    ELSE CASE config.logging.level = "info" -> level = "info"
           [] config.logging.level = "warn" -> level = "warn"
           [] config.logging.level = "error" -> level = "error"
           [] OTHER -> FALSE

\* writeLog appends the entry to the log file, or returns at once.
writeLog(level, event) ==
    logged' = IF logFilePath = "" \/ ~shouldLog(level)
              THEN logged
              ELSE Append(logged, [level |-> level, event |-> event])

\* What the steps of logging leave alone.
logFrame == <<dialogueVars, logFilePath, culprit, draft, mimeMessage, entry, relayVars,
             maskVars>>

\* sendMail is called: it logs the attempt first.
Attempt(c, o) ==
    /\ SendMail(c, o)
    /\ writeLog("debug", "mail_attempt")
    /\ UNCHANGED logFrame

\* One turn of the rate-limit loop: each check of checkRateLimit logs the
\* recipient as banned before it throws.
Limited(c) ==
    /\ SendMailCheckRateLimit(c)
    /\ IF checkRateLimit(Limits(Recipients(options[c])[idx[c]], now),
                         metrics, now).error # NoError
       THEN writeLog("debug", "banned")
       ELSE UNCHANGED logged
    /\ UNCHANGED logFrame

\* The send succeeded: sendMail logs it after updateMetrics.
Delivered(c) ==
    /\ SendSuccess(c)
    /\ writeLog("info", "mail_success")
    /\ UNCHANGED logFrame

\* The catch block of sendMail logs the failure before it rethrows.
Undelivered(c, kind) ==
    /\ CASE kind = "command" -> CommandFail(c)
         [] kind = "attachment" -> AttachmentFail(c)
         [] OTHER -> ConnectFail(c, kind)
    /\ writeLog("error", "mail_failure")
    /\ UNCHANGED logFrame

\* The callers' logging configs: each level or none, with and without a
\* destination.
LogConfigs ==
    { Configure([ port |-> 465, secure |-> TRUE, keepAlive |-> FALSE,
                  retryAttempts |-> 0, rateLimiting |-> u,
                  logging |-> [level |-> l, destination |-> d] ]) :
        u \in UserRateLimiting, l \in {"", "debug", "info", "warn", "error"},
        d \in {"", "mail.log"} }

LogInit == InitWith(LogConfigs)

LogNext ==
    \/ \E c \in Calls, o \in Requests : Attempt(c, o)
    \/ \E c \in Calls, kind \in Outcomes : ProbeFail(c, kind) /\ UNCHANGED sideVars
    \/ \E c \in Calls : ProbeOk(c) /\ UNCHANGED sideVars
    \/ \E c \in Calls : Limited(c)
    \/ \E c \in Calls : ConnectOk(c) /\ UNCHANGED sideVars
    \/ \E c \in Calls, kind \in Outcomes \cup {"command", "attachment"} :
          Undelivered(c, kind)
    \/ \E c \in Calls, kind \in Outcomes : SocketEvent(c, kind) /\ UNCHANGED sideVars
    \/ \E c \in Calls : Delivered(c)

\* sendMail with its log file, at a clock that stands still.
LogSpec == LogInit /\ [][LogNext]_vars

\* ----------------------------------------------------------- the composer
\* Text is a sequence of characters; a literal the composer emits is one
\* element. "x" stands for any letter or digit.
Controls == {"CR", "LF", "TAB", "VT", "FF"}
Chars == {"x"} \cup Controls
AddrChars == {"x", "@", ".", "CR", "LF"}
Strings(alphabet, n) == UNION {[1..k -> alphabet] : k \in 0..n}

\* sanitizeHeader: value.replace(/[\r\n\t\v\f]/g, '')
sanitizeHeader(value) ==
    LET kept(ch) == ch \notin Controls IN SelectSeq(value, kept)

\* validateEmail on text: dot-separated atoms, '@', two or more dot-separated
\* labels; no other character, no empty atom or label.
EmailRegex(email) ==
    LET at == {i \in DOMAIN email : email[i] = "@"}
        dots == {i \in DOMAIN email : email[i] = "."}
        ends == {0, Len(email) + 1} \cup at
    IN  /\ \A i \in DOMAIN email : email[i] \in {"x", "@", "."}
        /\ Cardinality(at) = 1
        /\ at \cap {1, Len(email)} = {}
        /\ \A i \in dots : i - 1 \notin ends \cup dots /\ i + 1 \notin ends \cup dots
        /\ \E i \in dots : \A a \in at : i > a

\* list.join(', ')
RECURSIVE Join(_)
Join(list) ==
    IF list = << >> THEN << >>
    ELSE IF Len(list) = 1 THEN list[1]
    ELSE list[1] \o <<", ">> \o Join(Tail(list))

CRLF == <<"CR", "LF">>
From == <<"x", "@", "x", ".", "x">>

\* The MIME part of one attachment given by content.
Part(attachment) ==
    LET filename == IF attachment.filename = << >> THEN <<"attachment">>
                    ELSE attachment.filename
        contentType == IF attachment.contentType = << >>
                       THEN <<"application/octet-stream">>
                       ELSE attachment.contentType
        encoding == IF attachment.encoding = << >> THEN <<"base64">>
                    ELSE attachment.encoding
    IN  <<"--boundary">> \o CRLF
        \o <<"Content-Type: ">> \o contentType \o CRLF
        \o <<"Content-Disposition: attachment; filename=\"">> \o filename
        \o <<"\"">> \o CRLF
        \o <<"Content-Transfer-Encoding: ">> \o encoding \o CRLF \o CRLF
        \o <<"content">> \o CRLF \o CRLF

RECURSIVE Parts(_)
Parts(attachments) ==
    IF attachments = << >> THEN << >>
    ELSE Part(Head(attachments)) \o Parts(Tail(attachments))

\* buildMimeMessage, for a request with a text body.
buildMimeMessage(o) ==
    <<"MIME-Version: 1.0">> \o CRLF
    \o <<"From: ">> \o sanitizeHeader(From) \o CRLF
    \o <<"To: ">> \o sanitizeHeader(Join(o.to)) \o CRLF
    \o (IF o.cc # << >> THEN <<"Cc: ">> \o Join(o.cc) \o CRLF ELSE << >>)
    \o <<"Subject: ">> \o sanitizeHeader(o.subject) \o CRLF
    \o <<"Content-Type: multipart/mixed; boundary=\"boundary\"">> \o CRLF \o CRLF
    \o <<"--boundary">> \o CRLF
    \o <<"Content-Type: text/plain; charset=utf-8">> \o CRLF \o CRLF
    \o <<"text">> \o CRLF \o CRLF
    \o Parts(o.attachments)
    \o <<"--boundary--">> \o CRLF \o <<".">>

\* sendMail validates the recipients of the request and, once DATA is
\* answered, composes the message.
Compose ==
    /\ mimeMessage = NoMessage
    /\ \A i \in DOMAIN (draft.to \o draft.cc) : EmailRegex((draft.to \o draft.cc)[i])
    /\ mimeMessage' = buildMimeMessage(draft)
    /\ UNCHANGED <<sendVars, dialogueVars, logFilePath, logged, culprit, draft, entry,
                   relayVars, maskVars>>

\* An address validateEmail accepts, and a plain request.
Address == <<"x", "@", "x", ".", "x">>
Plain == [subject |-> <<"x">>, to |-> <<Address>>, cc |-> << >>,
          attachments |-> << >>]
Attachment(filename, contentType, encoding) ==
    [filename |-> filename, contentType |-> contentType, encoding |-> encoding]

\* A fresh instance, and a request for the composer: a plain one with one
\* field at a time ranging over every text.
MimeInit ==
    /\ Created({Constructor(u) : u \in UserRateLimiting})
    /\ mimeMessage = NoMessage
    /\ payload = NoPayload
    /\ written = NoEntry
    /\ draft \in
         {[Plain EXCEPT !.subject = v] : v \in Strings(Chars, MaxLen)}
           \cup {[Plain EXCEPT !.to = <<v>>] : v \in Strings(AddrChars, AddrLen)}
           \cup {[Plain EXCEPT !.cc = <<Address, v>>] : v \in Strings(AddrChars, AddrLen)}
           \cup {[Plain EXCEPT !.attachments = <<Attachment(v, << >>, << >>)>>] :
                    v \in Strings(Chars, MaxLen)}
           \cup {[Plain EXCEPT !.attachments = <<Attachment(<<"x">>, v, << >>)>>] :
                    v \in Strings(Chars, MaxLen)}
           \cup {[Plain EXCEPT !.attachments = <<Attachment(<<"x">>, << >>, v)>>] :
                    v \in Strings(Chars, MaxLen)}

MimeNext == Compose

\* buildMimeMessage over the requests that pass validation.
MimeSpec == MimeInit /\ [][MimeNext]_vars

\* ------------------------------------------------- the causes of rejection
\* A second address that validateEmail rejects.
Y == "nor this"

\* Variant: the validation loop reports the last invalid recipient.
RECURSIVE Invalid_Last(_)
Invalid_Last(rs) ==
    IF rs = << >> THEN ""
    ELSE IF ~validateEmail(rs[Len(rs)]) THEN rs[Len(rs)]
    ELSE Invalid_Last(SubSeq(rs, 1, Len(rs) - 1))

\* The recipient at which  for (const recipient of recipients)
\* if (!this.validateEmail(recipient)) throw  stops, "" when it runs through.
RECURSIVE Invalid(_)
Invalid(rs) ==
    IF rs = << >> THEN ""
    ELSE IF ~validateEmail(Head(rs)) THEN Head(rs)
    ELSE Invalid(Tail(rs))

\* What the steps that name a recipient leave alone.
orderFrame == <<dialogueVars, logFilePath, logged, draft, mimeMessage, entry, relayVars,
               maskVars>>

\* sendMail is called.
Asked(c, o) ==
    /\ SendMail(c, o)
    /\ culprit' = [culprit EXCEPT ![c] = ""]
    /\ UNCHANGED orderFrame

\* The probe connects and the validation loop runs: its error names the
\* recipient it stopped at.
Validated(c) ==
    /\ ProbeOk(c)
    /\ culprit' = [culprit EXCEPT ![c] = Invalid(Recipients(options[c]))]
    /\ UNCHANGED orderFrame

\* One turn of the rate-limit loop: the error checkRateLimit throws names the
\* recipient it was called with.
Checked(c) ==
    /\ SendMailCheckRateLimit(c)
    /\ LET r == Recipients(options[c])[idx[c]]
       IN  culprit' = [culprit EXCEPT ![c] =
                          IF checkRateLimit(Limits(r, now), metrics, now).error # NoError
                          THEN r ELSE @]
    /\ UNCHANGED orderFrame

\* The requests of this part: one more, with a valid address ahead of two
\* different invalid ones.
OrderRequests == Requests \cup {[to |-> <<A>>, cc |-> <<Y>>, bcc |-> <<X>>]}

OrderNext ==
    \/ \E c \in Calls, o \in OrderRequests : Asked(c, o)
    \/ \E c \in Calls, kind \in Outcomes : ProbeFail(c, kind) /\ UNCHANGED sideVars
    \/ \E c \in Calls : Validated(c)
    \/ \E c \in Calls : Checked(c)
    \/ \E c \in Calls : ConnectOk(c) /\ UNCHANGED sideVars
    \/ \E c \in Calls, kind \in Outcomes : ConnectFail(c, kind) /\ UNCHANGED sideVars
    \/ \E c \in Calls : CommandFail(c) /\ UNCHANGED sideVars
    \/ \E c \in Calls : SendSuccess(c) /\ UNCHANGED sideVars

\* sendMail with the recipient its early errors name, at a clock that stands
\* still.
OrderSpec == Init /\ [][OrderNext]_vars

\* ------------------------------------------------ what a call started from
\* sendMail is called: the rate-limit map is as the call finds it.
Entered(c, o) ==
    /\ SendMail(c, o)
    /\ entry' = [entry EXCEPT ![c] = rateLimits]
    /\ UNCHANGED <<dialogueVars, logFilePath, logged, culprit, draft, mimeMessage,
                   relayVars, maskVars>>

EntryNext ==
    \/ Tick /\ UNCHANGED sideVars
    \/ \E c \in Calls, o \in Requests : Entered(c, o)
    \/ \E c \in Calls, kind \in Outcomes : ProbeFail(c, kind) /\ UNCHANGED sideVars
    \/ \E c \in Calls : ProbeOk(c) /\ UNCHANGED sideVars
    \/ \E c \in Calls : SendMailCheckRateLimit(c) /\ UNCHANGED sideVars
    \/ \E c \in Calls : ConnectOk(c) /\ UNCHANGED sideVars
    \/ \E c \in Calls, kind \in Outcomes : ConnectFail(c, kind) /\ UNCHANGED sideVars
    \/ \E c \in Calls : CommandFail(c) /\ UNCHANGED sideVars
    \/ \E c \in Calls : SendSuccess(c) /\ UNCHANGED sideVars

\* sendMail, remembering the rate-limit map each call started from.
EntrySpec == Init /\ [][EntryNext]_vars

\* --------------------------------------------------------- the relay
\* The relay's side of a transaction.  A data event is named by the command
\* it answers: the number of that command on the wire, 0 for the greeting the
\* relay sends on connect.

\* sendMail(o) is called: nothing is on its way to it.
Dial(c, o) ==
    /\ Call(c, o)
    /\ inbox' = [inbox EXCEPT ![c] = << >>]
    /\ heard' = [heard EXCEPT ![c] = << >>]
    /\ UNCHANGED restVars

\* The transaction connection is established: the relay greets, or not, and
\* sendMail writes EHLO; the listener of that sendCommand is in place before
\* any data event is dispatched.
Accepted(c, greets) ==
    /\ Begin(c)
    /\ inbox' = [inbox EXCEPT ![c] = IF greets THEN <<0>> ELSE << >>]
    /\ UNCHANGED <<heard, restVars>>

\* The number of the last command the relay has answered.
Read(c) ==
    LET all == heard[c] \o inbox[c]
    IN  IF all = << >> THEN 0 ELSE all[Len(all)]

\* The relay receives the next command on the wire and sends its reply, which
\* reaches the socket as one data event or as several.
Answers(c, parts) ==
    /\ pc[c] = "dialogue"
    /\ Read(c) < Len(wire[c])
    /\ inbox' = [inbox EXCEPT ![c] = @ \o [i \in 1..parts |-> Read(c) + 1]]
    /\ UNCHANGED <<sendVars, dialogueVars, heard, restVars>>

\* A 'data' event: responseHandler removes itself and resolves the pending
\* sendCommand with this event, whatever it answers; sendMail goes on.
Data(c) ==
    /\ inbox[c] # << >>
    /\ Reply(c, "250")
    /\ heard' = [heard EXCEPT ![c] = Append(@, Head(inbox[c]))]
    /\ inbox' = [inbox EXCEPT ![c] = Tail(@)]
    /\ UNCHANGED restVars

RelayConfigs ==
    { Configure([ port |-> 587, secure |-> sec, keepAlive |-> FALSE,
                  retryAttempts |-> 0, rateLimiting |-> u ]) :
        sec \in BOOLEAN, u \in UserRateLimiting }

RelayInit == InitWith(RelayConfigs)

RelayNext ==
    \/ \E c \in Calls, o \in Requests : Dial(c, o)
    \/ \E c \in Calls : ProbeOk(c) /\ UNCHANGED sideVars
    \/ \E c \in Calls : SendMailCheckRateLimit(c) /\ UNCHANGED sideVars
    \/ \E c \in Calls, greets \in BOOLEAN : Accepted(c, greets)
    \/ \E c \in Calls, parts \in 1..MaxParts : Answers(c, parts)
    \/ \E c \in Calls : Data(c)

\* sendMail against a relay that answers each command it receives.
RelaySpec == RelayInit /\ [][RelayNext]_vars

\* ------------------------------------------------------------ masking
\* A payload is an object: its keys with their values, "" for a falsy one.
sensitiveFields == {"password", "auth", "token", "key"}
Mask == "********"

\* maskSensitiveData: a shallow copy whose truthy sensitive fields are masked.
maskSensitiveData(data) ==
    [k \in DOMAIN data |->
        IF k \in sensitiveFields /\ data[k] # "" THEN Mask ELSE data[k]]

\* The entry writeLog formats: in json the masked payload under timestamp and
\* level, with every configured custom field the payload has a truthy value
\* for set from the payload as it was handed in; in text the line of
\* timestamp, level and the masked payload.
logEntry(level, data) ==
    LET maskedData == maskSensitiveData(data)
        custom == {f \in Range(config.logging.customFields) :
                      f \in DOMAIN data /\ data[f] # ""}
        head == [k \in {"timestamp", "level"} |->
                    IF k = "level" THEN level ELSE "now"]
    IN  IF config.logging.format = "text"
        THEN [k \in DOMAIN head \cup DOMAIN maskedData |->
                 IF k \in DOMAIN head THEN head[k] ELSE maskedData[k]]
        ELSE [k \in DOMAIN head \cup DOMAIN maskedData |->
                 IF k \in custom THEN data[k]
                 ELSE IF k \in DOMAIN maskedData THEN maskedData[k] ELSE head[k]]

\* writeLog(level, payload) on an instance that logs this level to its file.
WriteLog(level) ==
    /\ written = NoEntry
    /\ logFilePath # ""
    /\ shouldLog(level)
    /\ written' = logEntry(level, payload)
    /\ UNCHANGED <<sendVars, dialogueVars, logFilePath, logged, culprit, draft,
                   mimeMessage, entry, relayVars, payload>>

\* The callers' logging configs for the masking: both formats, and custom
\* fields that name an ordinary key, a sensitive one, or both.
MaskConfigs ==
    { Configure([ port |-> 465, secure |-> TRUE, keepAlive |-> FALSE,
                  retryAttempts |-> 0, rateLimiting |-> u,
                  logging |-> [level |-> "debug", destination |-> "mail.log",
                               format |-> f, customFields |-> cf] ]) :
        u \in UserRateLimiting, f \in {"json", "text"},
        cf \in {<< >>, <<"event">>, <<"password">>, <<"event", "token">>} }

\* A fresh instance, and a payload for writeLog: any object over these keys.
MaskInit ==
    /\ Created(MaskConfigs)
    /\ draft = NoDraft
    /\ mimeMessage = NoMessage
    /\ written = NoEntry
    /\ payload \in UNION {[S -> {"", "s3cret"}] :
                             S \in SUBSET ({"event"} \cup sensitiveFields)}

MaskNext == \E level \in {"debug", "info", "error"} : WriteLog(level)

\* writeLog applied to a payload.
MaskSpec == MaskInit /\ [][MaskNext]_vars

\* ------------------------------------------------------ concurrent calls
\* Two sendMail calls pending on one instance.
Concurrent == {"c1", "c2"}

\* The configuration whose burst limit is met before its rapid-attempt ban.
ConcurrentConfigs ==
    {Constructor(u) : u \in {v \in UserRateLimiting : v.maxRapidAttempts > v.burstLimit + 1}}

\* The requests of the concurrent calls: each address is listed once.
ConcurrentRequests == {o \in Requests : o.bcc = << >>}

ConcurrentInit ==
    /\ Started(ConcurrentConfigs, Concurrent)
    /\ draft = NoDraft
    /\ mimeMessage = NoMessage
    /\ payload = NoPayload
    /\ written = NoEntry

\* Each call suspends at its two connection awaits (the probe and the
\* transaction connection) and in the dialogue; whichever pending call has its
\* I/O completed next continues.
ConcurrentNext ==
    \/ Tick /\ UNCHANGED sideVars
    \/ \E c \in Concurrent, o \in ConcurrentRequests : Entered(c, o)
    \/ \E c \in Concurrent, kind \in Outcomes :
          ProbeFail(c, kind) /\ UNCHANGED sideVars
    \/ \E c \in Concurrent : ProbeOk(c) /\ UNCHANGED sideVars
    \/ \E c \in Concurrent : SendMailCheckRateLimit(c) /\ UNCHANGED sideVars
    \/ \E c \in Concurrent : ConnectOk(c) /\ UNCHANGED sideVars
    \/ \E c \in Concurrent, kind \in Outcomes :
          ConnectFail(c, kind) /\ UNCHANGED sideVars
    \/ \E c \in Concurrent : SendSuccess(c) /\ UNCHANGED sideVars

ConcurrentSpec == ConcurrentInit /\ [][ConcurrentNext]_vars

\* Send durations in milliseconds, on both sides of every cutoff.
Durations == {0, 100, 101, 150, 500, 501, 1000, 1001, 2000, 2001, 5000, 5001}

\* One transaction attempt that starts now and completes sendTime
\* milliseconds later: sendMail's updateMetrics(success, Date.now() - startTime).
Observe(success, sendTime) ==
    /\ sends < MaxSends
    /\ sends' = sends + 1
    /\ now' = now + sendTime
    /\ metrics' = updateMetrics(metrics, success, now' - now)
    /\ UNCHANGED <<config, rateLimits, pc, options, idx, socket, result,
                   faults, startTime, connections, verified, admitTimes, chain>>

HistNext ==
    \E success \in BOOLEAN, sendTime \in Durations :
        Observe(success, sendTime) /\ UNCHANGED sideVars

\* The metrics of an instance over sends of every duration.
HistSpec == Init /\ [][HistNext]_vars

\* ------------------------------------------------ reading a step of a call
\* The recipient the rate-limit loop of call c is at, its state before the
\* checkRateLimit call (materialised if unseen) and after it.
Cur(c) == Recipients(options[c])[idx[c]]
Pre(c) == Limits(Cur(c), now)
Post(c) == rateLimits'[Cur(c)]

\* This step is the checkRateLimit call of c (inside the loop only the clock
\* and the loop itself move).
CheckStep(c) == pc[c] = "ratelimit" /\ now' = now /\ pc'[c] # "probe"

\* The checkRateLimit call returned normally / threw with this message.
Admitted(c) == pc'[c] \in {"ratelimit", "connecting"}
RejectedWith(c, msg) == pc'[c] = "idle" /\ result'[c] = Rejected("ERATELIMIT", msg)
RateLimited(c) == pc'[c] = "idle" /\ result'[c].code = "ERATELIMIT"

\* What the rapid-attempt check makes of rapidAttempts, and whether it throws.
RapidAfter(l, t) == IF t - l.lastAttempt < RL.rapidPeriod THEN l.rapidAttempts + 1 ELSE 1
RapidFires(l, t) ==
    t - l.lastAttempt < RL.rapidPeriod /\ l.rapidAttempts + 1 >= RL.maxRapidAttempts
\* Whether the consecutive-failure check would throw on l.
FailureFires(l, t) ==
    l.consecutiveFailures >= RL.maxConsecutiveFailures
        /\ t - l.lastFailure < RL.failureCooldown

\* ------------------------------------------------------------------- C1
\* C1: every checkRateLimit(r) call that returns normally leaves r's count
\* at most burstLimit and r not under an active ban (banned false or
\* now >= banExpiry); and count <= burstLimit holds for every recipient in
\* every reachable state.
C1_CountBounded ==
    \A r \in DOMAIN rateLimits : rateLimits[r].count <= RL.burstLimit
C1_AdmitStep ==
    \A c \in Calls :
        CheckStep(c) /\ Admitted(c) =>
            /\ Post(c).count <= RL.burstLimit
            /\ (~Post(c).banned \/ now >= Post(c).banExpiry)
C1_Theorem == [](C1_CountBounded) /\ [][C1_AdmitStep]_vars

\* A call was admitted for all its recipients with one of them brought to
\* exactly the burst limit.
C1_Witness ==
    \E c \in Calls :
        /\ pc[c] = "connecting"
        /\ \E r \in Range(Recipients(options[c])) :
               rateLimits[r].count = RL.burstLimit

\* ------------------------------------------------------------------- C2
\* C2 as stated: for a recipient that is not banned, below
\* maxConsecutiveFailures, below maxRapidAttempts and inside its window, a
\* send at count >= burstLimit is rejected 'Rate limit exceeded for
\* recipient' with rate_limit_exceeded_total + 1 and count unchanged, and a
\* send at count < burstLimit is admitted with count + 1.
C2_Outcome(c) ==
    IF Pre(c).count >= RL.burstLimit
    THEN /\ RejectedWith(c, BurstMsg)
         /\ metrics'.rate_limit_exceeded_total = metrics.rate_limit_exceeded_total + 1
         /\ Post(c).count = Pre(c).count
    ELSE /\ Admitted(c)
         /\ Post(c).count = Pre(c).count + 1
         /\ metrics'.rate_limit_exceeded_total = metrics.rate_limit_exceeded_total
C2_Fresh(c) ==
    /\ ~Pre(c).banned
    /\ Pre(c).consecutiveFailures < RL.maxConsecutiveFailures
    /\ now - Pre(c).lastReset <= RL.cooldownPeriod
C2_Original ==
    [][\A c \in Calls :
          CheckStep(c) /\ C2_Fresh(c)
              /\ Pre(c).rapidAttempts < RL.maxRapidAttempts
          => C2_Outcome(c)]_vars

\* C2 (amended): the same, for a recipient whose rapidAttempts stays below
\* maxRapidAttempts after this call's own increment, i.e. the rapid-attempt
\* check, which runs first, does not reject the call.  With burstLimit = 2
\* the send at count = 2, the third of the window, is the first rejected.
C2_Theorem ==
    [][\A c \in Calls :
          CheckStep(c) /\ C2_Fresh(c)
              /\ RapidAfter(Pre(c), now) < RL.maxRapidAttempts
          => C2_Outcome(c)]_vars

\* A send was rejected by the burst check at count = burstLimit.
C2_Witness ==
    \E c \in Calls, r \in DOMAIN rateLimits :
        /\ result[c] = Rejected("ERATELIMIT", BurstMsg)
        /\ pc[c] = "idle"
        /\ rateLimits[r].count = RL.burstLimit
        /\ rateLimits[r].lastAttempt = now
        /\ metrics.rate_limit_exceeded_total = 1

\* ------------------------------------------------------------------- C3
\* C3 as stated: a checkRateLimit call for an un-banned recipient with
\* now - lastReset > cooldownPeriod resets the window (lastReset = now) and
\* admits the send with count = 1; with now - lastReset <= cooldownPeriod
\* there is no reset.
C3_Outcome(c) ==
    IF now - Pre(c).lastReset > RL.cooldownPeriod
    THEN /\ Admitted(c)
         /\ Post(c).lastReset = now
         /\ Post(c).count = 1
    ELSE /\ Post(c).lastReset = Pre(c).lastReset
         /\ Post(c).count \in {Pre(c).count, Pre(c).count + 1}
         /\ Admitted(c) <=> Post(c).count = Pre(c).count + 1
C3_Original ==
    [][\A c \in Calls : CheckStep(c) /\ ~Pre(c).banned => C3_Outcome(c)]_vars

\* C3 (amended): the same, for a call that the rapid-attempt check and the
\* consecutive-failure check, which run before the window reset, do not
\* reject; a call they reject leaves count and lastReset as they were.
C3_Theorem ==
    [][\A c \in Calls :
          CheckStep(c) /\ ~Pre(c).banned =>
              IF RapidFires(Pre(c), now) \/ FailureFires(Pre(c), now)
              THEN /\ RateLimited(c)
                   /\ Post(c).count = Pre(c).count
                   /\ Post(c).lastReset = Pre(c).lastReset
              ELSE C3_Outcome(c)]_vars

\* Two sends only: the first filled the window (count = burstLimit), the
\* second came after the cooldown and was admitted into a new window.
C3_Witness ==
    \E r \in DOMAIN rateLimits :
        /\ sends = 2
        /\ Len(admitTimes[r]) = RL.burstLimit + 1
        /\ admitTimes[r][RL.burstLimit] + RL.cooldownPeriod < now
        /\ admitTimes[r][RL.burstLimit + 1] = now
        /\ rateLimits[r].count = 1
        /\ rateLimits[r].lastReset = now

\* ------------------------------------------------------------------- C4
\* The recipient is under an active ban at time t.
ActiveBan(l, t) == l.banned /\ t < l.banExpiry

\* The promise of call c settles in this step.
Settles(c) == pc[c] # "idle" /\ pc'[c] = "idle"

\* Call c lists a recipient that is under an active ban now.
ListsBanned(c) ==
    \E r \in Range(Recipients(options[c])) \cap DOMAIN rateLimits :
        ActiveBan(rateLimits[r], now)

\* A rejection by the active-ban check carries its message and leaves
\* banned, count and consecutiveFailures as they were.
C4_BanRejection(c) ==
    CheckStep(c) /\ RejectedWith(c, BannedMsg) =>
        /\ ActiveBan(Pre(c), now)
        /\ Post(c).banned = Pre(c).banned
        /\ Post(c).count = Pre(c).count
        /\ Post(c).consecutiveFailures = Pre(c).consecutiveFailures

\* C4 as stated: while a recipient is banned and now < banExpiry, every
\* sendMail that lists it is rejected with code ERATELIMIT, never admitted;
\* and a rejection by the active-ban check carries the ban message and
\* leaves banned, count and consecutiveFailures unchanged.
C4_Original ==
    [][\A c \in Calls :
          /\ (pc[c] \in {"probe", "ratelimit"} /\ ListsBanned(c) /\ Settles(c)
                 => result'[c].code = "ERATELIMIT")
          /\ C4_BanRejection(c)]_vars

\* C4 (amended): while a recipient is banned and now < banExpiry, its
\* checkRateLimit call always rejects with ERATELIMIT, so no sendMail that
\* lists it is admitted; a sendMail that is rejected before reaching the
\* rate-limit checks is rejected with ECONNECTION (failed probe) or
\* EINVALIDEMAIL (invalid address) instead.  The active-ban part is as
\* stated.
C4_Theorem ==
    [][\A c \in Calls :
          /\ (CheckStep(c) /\ ActiveBan(Pre(c), now) => RateLimited(c))
          /\ (pc[c] = "ratelimit" /\ ListsBanned(c) /\ Settles(c)
                 => result'[c].code = "ERATELIMIT")
          /\ (pc[c] = "probe" /\ ListsBanned(c) /\ Settles(c)
                 => result'[c].code \in {"ECONNECTION", "EINVALIDEMAIL"})
          /\ (pc[c] = "probe" /\ ListsBanned(c) => pc'[c] # "connecting")
          /\ C4_BanRejection(c)]_vars

\* A send was just rejected by the active-ban check of a recipient whose ban
\* is still running.
C4_Witness ==
    \E c \in Calls, r \in DOMAIN rateLimits :
        /\ pc[c] = "idle"
        /\ result[c] = Rejected("ERATELIMIT", BannedMsg)
        /\ ActiveBan(rateLimits[r], now)
        /\ rateLimits[r].lastAttempt = now

\* ------------------------------------------------------------------- C5
\* What the clearing of an expired ban leaves behind.
C5_Cleared(c) ==
    /\ ~Post(c).banned
    /\ Post(c).lastReset = now
    /\ Post(c).consecutiveFailures = 0
    /\ Post(c).rapidAttempts = 0
    /\ Post(c).count = (IF Admitted(c) THEN 1 ELSE 0)
    /\ metrics'.banned_recipients_count = metrics.banned_recipients_count - 1
    /\ ~RejectedWith(c, BannedMsg)

\* C5 as stated: every checkRateLimit call that finds the recipient banned
\* with now >= banExpiry clears the ban in that call: banned false, count,
\* consecutiveFailures and rapidAttempts reset (count = 0 and lastReset =
\* now before the admission increment), banned_recipients_count - 1, and
\* the call is not rejected because of the ban.
C5_Original ==
    [][\A c \in Calls :
          CheckStep(c) /\ Pre(c).banned /\ now >= Pre(c).banExpiry
          => C5_Cleared(c)]_vars

\* C5 (amended): the same for every call that reaches the active-ban
\* check; a call that the rapid-attempt check rejects first leaves the
\* expired ban in place and imposes a new one (banExpiry = now +
\* banDuration, banned_recipients_count + 1).
C5_Theorem ==
    [][\A c \in Calls :
          CheckStep(c) /\ Pre(c).banned /\ now >= Pre(c).banExpiry =>
              IF RapidFires(Pre(c), now)
              THEN /\ RejectedWith(c, RapidMsg)
                   /\ Post(c).banned
                   /\ Post(c).banExpiry = now + RL.banDuration
                   /\ Post(c).count = Pre(c).count
                   /\ metrics'.banned_recipients_count =
                          metrics.banned_recipients_count + 1
              ELSE C5_Cleared(c) /\ Admitted(c)]_vars

\* A stored rapidAttempts of 0 is left only by the clearing of a ban: the
\* recipient's expired ban was cleared by the call just admitted.
C5_Witness ==
    \E r \in DOMAIN rateLimits :
        /\ ~rateLimits[r].banned
        /\ rateLimits[r].banExpiry > 0
        /\ rateLimits[r].banExpiry <= now
        /\ rateLimits[r].rapidAttempts = 0
        /\ rateLimits[r].count = 1
        /\ rateLimits[r].lastReset = now
        /\ metrics.banned_recipients_count = 0

\* ------------------------------------------------------------------- C6
\* The ban the call imposes, by whichever check.
C6_Bans(c) ==
    /\ Post(c).banned
    /\ Post(c).banExpiry = now + RL.banDuration
    /\ metrics'.banned_recipients_count = metrics.banned_recipients_count + 1
    /\ RateLimited(c)

\* The failure count is reset and the window and burst checks decide.
C6_Continues(c) ==
    /\ Post(c).consecutiveFailures = 0
    /\ ~Post(c).banned
    /\ Admitted(c) \/ RejectedWith(c, BurstMsg)

\* C6 as stated: for an un-banned recipient with consecutiveFailures >=
\* maxConsecutiveFailures, if now - lastFailure < failureCooldown the
\* recipient is banned until now + banDuration, banned_recipients_count
\* rises by one and the send is rejected with ERATELIMIT; otherwise
\* consecutiveFailures is reset to 0 and the window and burst checks follow.
C6_Original ==
    [][\A c \in Calls :
          CheckStep(c) /\ ~Pre(c).banned
              /\ Pre(c).consecutiveFailures >= RL.maxConsecutiveFailures =>
              IF now - Pre(c).lastFailure < RL.failureCooldown
              THEN C6_Bans(c)
              ELSE C6_Continues(c)]_vars

\* C6 (amended): the same, except that after the failure cooldown the reset
\* happens only if the rapid-attempt check, which runs first, does not
\* reject the call; if it does, the recipient is banned all the same and
\* consecutiveFailures keeps its value.
C6_Theorem ==
    [][\A c \in Calls :
          CheckStep(c) /\ ~Pre(c).banned
              /\ Pre(c).consecutiveFailures >= RL.maxConsecutiveFailures =>
              IF now - Pre(c).lastFailure < RL.failureCooldown
              THEN C6_Bans(c)
                   /\ (~RapidFires(Pre(c), now) => RejectedWith(c, FailuresMsg))
              ELSE IF RapidFires(Pre(c), now)
                   THEN /\ C6_Bans(c)
                        /\ Post(c).consecutiveFailures = Pre(c).consecutiveFailures
                   ELSE C6_Continues(c)]_vars

\* A send was just rejected by the consecutive-failure check, which banned
\* the recipient.
C6_Witness ==
    \E c \in Calls, r \in DOMAIN rateLimits :
        /\ pc[c] = "idle"
        /\ result[c] = Rejected("ERATELIMIT", FailuresMsg)
        /\ rateLimits[r].banned
        /\ rateLimits[r].banExpiry = now + RL.banDuration
        /\ rateLimits[r].consecutiveFailures >= RL.maxConsecutiveFailures
        /\ metrics.banned_recipients_count = 1

\* ------------------------------------------------------------------- C7
\* This call clears an expired ban (which sets rapidAttempts to 0).
Clears(c) ==
    Pre(c).banned /\ now >= Pre(c).banExpiry /\ ~RapidFires(Pre(c), now)

\* The rapid-attempt check on one call: within rapidPeriod of the last
\* attempt rapidAttempts is incremented, and on reaching maxRapidAttempts
\* the recipient is banned until now + banDuration, banned_recipients_count
\* rises by one and the call is rejected 'Too many rapid sending attempts';
\* at rapidPeriod or more after the last attempt rapidAttempts is set to 1.
\* (A ban cleared later in the same call sets rapidAttempts to 0 again.)
C7_RapidStep(c) ==
    IF RapidFires(Pre(c), now)
    THEN /\ Post(c).rapidAttempts = Pre(c).rapidAttempts + 1
         /\ Post(c).banned
         /\ Post(c).banExpiry = now + RL.banDuration
         /\ metrics'.banned_recipients_count = metrics.banned_recipients_count + 1
         /\ RejectedWith(c, RapidMsg)
    ELSE /\ ~RejectedWith(c, RapidMsg)
         /\ Post(c).rapidAttempts =
                (IF Clears(c) THEN 0
                 ELSE IF now - Pre(c).lastAttempt < RL.rapidPeriod
                      THEN Pre(c).rapidAttempts + 1 ELSE 1)

\* The call is the k-th of an unbroken chain since the recipient was unseen.
ChainLength(c) == chain'[Cur(c)]

C8_Claim ==
    [][\A c \in Calls : CheckStep(c) => Post(c).lastAttempt = now]_vars

\* ------------------------------------------------------------------- C9
\* C9 as stated: in every interval of length cooldownPeriod (a sliding
\* window) at most burstLimit calls are admitted for a recipient; that is,
\* any burstLimit + 1 consecutive admissions span at least cooldownPeriod.
C9_Original ==
    \A r \in DOMAIN admitTimes :
        Len(admitTimes[r]) = RL.burstLimit + 1 =>
            admitTimes[r][RL.burstLimit + 1] - admitTimes[r][1] >= RL.cooldownPeriod

\* The admissions of r recorded at or after the start of its current window.
InWindow(r) ==
    {i \in DOMAIN admitTimes[r] : admitTimes[r][i] >= rateLimits[r].lastReset}

\* C9 (amended): the window is fixed, not sliding: from each reset of a
\* recipient's count (lastReset) to the next, at most burstLimit calls are
\* admitted, and count is their number.
C9_Theorem ==
    \A r \in DOMAIN rateLimits :
        /\ Cardinality(InWindow(r)) <= RL.burstLimit
        /\ Cardinality(InWindow(r)) = rateLimits[r].count

\* A full window right after a reset: burstLimit + 1 admissions within less
\* than cooldownPeriod, the first of them in the window before.
C9_Witness ==
    \E r \in DOMAIN rateLimits :
        /\ Len(admitTimes[r]) = RL.burstLimit + 1
        /\ admitTimes[r][RL.burstLimit + 1] - admitTimes[r][1] < RL.cooldownPeriod
        /\ admitTimes[r][1] < rateLimits[r].lastReset
        /\ Cardinality(InWindow(r)) = RL.burstLimit
        /\ ~rateLimits[r].banned
        /\ rateLimits[r].banExpiry = 0

\* ------------------------------------------------------------------ C10
\* This step is the success of call c.
Succeeds(c) == pc[c] = "dialogue" /\ pc'[c] = "idle" /\ result'[c] = Resolved

\* C10: after a successful sendMail (perRecipient enabled)
\* consecutiveFailures is 0 for every recipient of that send (To, Cc, Bcc),
\* whatever it was, and the recipients it does not list keep theirs.
C10_Theorem ==
    [][\A c \in Calls :
          Succeeds(c) /\ RL.perRecipient =>
              /\ Range(Recipients(options[c])) \subseteq DOMAIN rateLimits'
              /\ \A r \in DOMAIN rateLimits' :
                    IF r \in Range(Recipients(options[c]))
                    THEN rateLimits'[r].consecutiveFailures = 0
                    ELSE rateLimits'[r].consecutiveFailures =
                             rateLimits[r].consecutiveFailures]_vars

\* Two sends to one recipient, the first failed in its transaction and the
\* second, admitted with that failure on record, succeeded and reset it.
C10_Witness ==
    \E c \in Calls, r \in DOMAIN rateLimits :
        /\ sends = 2
        /\ DOMAIN rateLimits = {r}
        /\ metrics.emails_failed = 1
        /\ metrics.emails_successful = 1
        /\ pc[c] = "idle"
        /\ result[c] = Resolved
        /\ rateLimits[r].lastFailure = now
        /\ rateLimits[r].lastAttempt = now
        /\ rateLimits[r].count = 2
        /\ RL.maxConsecutiveFailures = 2
        /\ rateLimits[r].consecutiveFailures = 0

\* ------------------------------------------------------------------ C11
\* The recipients call c lists, and how often it lists r.
Listed(c) == Range(Recipients(options[c]))
Hits(c, r) ==
    Cardinality({i \in DOMAIN Recipients(options[c]) : Recipients(options[c])[i] = r})

ErrorCount(m, r) ==
    IF r \in DOMAIN m.error_count_by_recipient
    THEN m.error_count_by_recipient[r] ELSE 0

\* Call c is rejected in this step, after its probe has succeeded.
FailsAfterProbe(c) ==
    /\ Settles(c)
    /\ result'[c].status = "rejected"
    /\ ~(pc[c] = "probe" /\ result'[c].code = "ECONNECTION")

\* Call c is rejected in this step by a failure of its transaction.
TransactionFails(c) ==
    pc[c] \in {"connecting", "dialogue"} /\ Settles(c)
        /\ result'[c].status = "rejected"

\* Call c is rejected in this step for an invalid address or a rate limit.
RejectedUnsent(c) ==
    Settles(c) /\ result'[c].code \in {"EINVALIDEMAIL", "ERATELIMIT"}

\* The step counts one failed send and, for each listed recipient, one
\* failure (once) or one failure per time the request lists it.
FailuresOf(c, r, once) == IF once THEN 1 ELSE Hits(c, r)

CountsFailure(c, once) ==
    /\ metrics'.emails_failed = metrics.emails_failed + 1
    /\ \A r \in Listed(c) :
          /\ ErrorCount(metrics', r) = ErrorCount(metrics, r) + FailuresOf(c, r, once)
          /\ r \in DOMAIN rateLimits'
          /\ rateLimits'[r].consecutiveFailures =
                 Limits(r, now).consecutiveFailures + FailuresOf(c, r, once)
          /\ rateLimits'[r].lastFailure = now

\* C11 as stated: every failure after the probe has succeeded (invalid
\* address, rate limit, transaction connection, command write, attachment)
\* raises emails_failed by one and, for each listed recipient,
\* consecutiveFailures and its error_count_by_recipient entry by one, with
\* lastFailure = now.
C11_Original ==
    [][\A c \in Calls :
          FailsAfterProbe(c) => CountsFailure(c, TRUE)]_vars

\* C11 (amended): only a failure inside the transaction (its connection, a
\* command write, an attachment) is counted: emails_failed and the ledger
\* rise by one and, for each listed recipient, consecutiveFailures and its
\* error_count_by_recipient entry rise by one per time the request lists it,
\* with lastFailure = now.  A rejection for an invalid address or a rate
\* limit counts nothing: emails_failed, the ledger, error_count_by_recipient
\* and every lastFailure stay, and no consecutiveFailures rises.
C11_Theorem ==
    [][\A c \in Calls :
          /\ TransactionFails(c) =>
                /\ CountsFailure(c, FALSE)
                /\ metrics'.failed_emails = metrics.failed_emails + 1
          /\ RejectedUnsent(c) \/ CheckStep(c) =>
                /\ metrics'.emails_failed = metrics.emails_failed
                /\ metrics'.failed_emails = metrics.failed_emails
                /\ metrics'.error_count_by_recipient = metrics.error_count_by_recipient
                /\ \A r \in DOMAIN rateLimits :
                      /\ rateLimits'[r].consecutiveFailures
                             <= rateLimits[r].consecutiveFailures
                      /\ rateLimits'[r].lastFailure = rateLimits[r].lastFailure]_vars

\* A request that lists one recipient twice just failed on a command write.
C11_Witness ==
    \E c \in Calls, r \in DOMAIN rateLimits :
        /\ pc[c] = "idle"
        /\ result[c].code = "ECOMMAND"
        /\ metrics.emails_failed = 1
        /\ metrics.failed_emails = 1
        /\ ErrorCount(metrics, r) = 2
        /\ rateLimits[r].consecutiveFailures = 2
        /\ rateLimits[r].lastFailure = now
        /\ rateLimits[r].lastAttempt < now

\* ------------------------------------------------------------------ C12
\* No recipient is banned.
NoBans == \A r \in DOMAIN rateLimits : ~rateLimits[r].banned

\* What a step may do to the gauge, given the banned flag before and after.
BanDelta(before, after) ==
    IF ~before /\ after THEN 1
    ELSE IF before /\ ~after THEN -1
    ELSE 0

\* C12: banned_recipients_count rises by one exactly when a recipient's banned
\* flag goes from false to true and falls by one exactly when an expired ban
\* is cleared; a rejected attempt on an already banned recipient leaves it,
\* and once every ban has been cleared it is back at 0.
C12_Claim ==
    /\ [](NoBans => metrics.banned_recipients_count = 0)
    /\ [][\A c \in Calls :
             IF CheckStep(c)
             THEN metrics'.banned_recipients_count =
                      metrics.banned_recipients_count
                      + BanDelta(Pre(c).banned, Post(c).banned)
             ELSE metrics'.banned_recipients_count =
                      metrics.banned_recipients_count]_vars

\* ------------------------------------------------------------------ C13
\* Call c has been rejected for a rate limit or an invalid address.
Unsent(c) == result[c].code \in {"ERATELIMIT", "EINVALIDEMAIL"}

\* C13 as stated: a call rejected with ERATELIMIT or EINVALIDEMAIL has opened
\* no socket between its start and its rejection.
C13_Original == \A c \in Calls : Unsent(c) => connections[c] = 0

\* C13 (amended): a call rejected with ERATELIMIT or EINVALIDEMAIL has opened
\* exactly one socket, the probe connection of verifyConnection that sendMail
\* makes before it validates; it has opened no transaction connection.
C13_Theorem ==
    \A c \in Calls : Unsent(c) => connections[c] = 1 /\ ~socket[c]

\* A call has been rejected for a rate limit after its probe connected.
C13_Witness ==
    \E c \in Calls :
        /\ pc[c] = "idle"
        /\ result[c].code = "ERATELIMIT"
        /\ connections[c] = 1
        /\ metrics.active_connections >= 1

\* ------------------------------------------------------------------ C14
\* Call c has reached a terminal state: its promise resolved or rejected.
Terminal(c) == pc[c] = "idle" /\ result[c].status \in {"resolved", "rejected"}

\* C14: every pending sendMail call eventually resolves or rejects; in
\* particular a call whose relay falls silent, or whose socket errors or times
\* out, after the transaction connection was established eventually rejects.
C14_Claim == \A c \in Calls : (pc[c] # "idle") ~> Terminal(c)

\* ------------------------------------------------------------------ C15
\* C15: emails_total = emails_successful + emails_failed in every state; none
\* of the three counters ever decreases; and every call that completes its
\* transaction attempt, by success or by a failure inside the transaction,
\* raises emails_total by exactly one.
C15_Theorem ==
    /\ [](metrics.emails_total = metrics.emails_successful + metrics.emails_failed)
    /\ [][/\ metrics'.emails_total >= metrics.emails_total
          /\ metrics'.emails_successful >= metrics.emails_successful
          /\ metrics'.emails_failed >= metrics.emails_failed
          /\ \A c \in Calls :
                Succeeds(c) \/ TransactionFails(c) =>
                    metrics'.emails_total = metrics.emails_total + 1]_vars

\* One transaction has succeeded and one has failed.
C15_Witness ==
    /\ metrics.emails_successful = 1
    /\ metrics.emails_failed = 1
    /\ metrics.emails_total = 2
    /\ \A c \in Calls : pc[c] = "idle"

\* ------------------------------------------------------------------ C16
\* The buckets a send of sendTime milliseconds belongs to.
BucketsOf(sendTime) == {b \in Buckets : sendTime <= CutoffMs[b]}

\* The step records exactly one send, of this duration.
Records(sendTime) ==
    /\ metrics'.duration_count = metrics.duration_count + 1
    /\ \A b \in Buckets :
          metrics'.buckets[b] =
              metrics.buckets[b] + (IF b \in BucketsOf(sendTime) THEN 1 ELSE 0)

\* C16: the histogram is cumulative.  A send of duration s increments exactly
\* the buckets whose cutoff b satisfies s <= b; so no bucket ever decreases,
\* buckets[0.1] <= buckets[0.5] <= buckets[1] <= buckets[2] <= buckets[5] <=
\* count in every state, and a single successful send of 150 ms gives
\* buckets[0.5] = 1 and buckets[0.1] = 0.
C16_Theorem ==
    /\ [](/\ metrics.buckets["0.1"] <= metrics.buckets["0.5"]
          /\ metrics.buckets["0.5"] <= metrics.buckets["1"]
          /\ metrics.buckets["1"] <= metrics.buckets["2"]
          /\ metrics.buckets["2"] <= metrics.buckets["5"]
          /\ metrics.buckets["5"] <= metrics.duration_count)
    /\ [][/\ \A b \in Buckets : metrics'.buckets[b] >= metrics.buckets[b]
          /\ Records(now' - now)
          /\ metrics = InitMetrics /\ now' - now = 150
                 /\ metrics'.emails_successful = 1
             => /\ metrics'.buckets["0.5"] = 1
                /\ metrics'.buckets["0.1"] = 0]_vars

\* The only send so far succeeded and took 150 ms.
C16_Witness ==
    /\ now = 150
    /\ metrics.duration_count = 1
    /\ metrics.emails_successful = 1
    /\ metrics.buckets["0.1"] = 0
    /\ metrics.buckets["0.5"] = 1
    /\ metrics.buckets["5"] = 1

\* ------------------------------------------------------------------ C17
\* Call c is rejected in this step before its transaction has started.
RejectedEarly(c) ==
    /\ Settles(c)
    /\ \/ pc[c] = "probe" /\ result'[c].code = "ECONNECTION"
       \/ result'[c].code \in {"EINVALIDEMAIL", "ERATELIMIT"}

\* The counters of completed sends.
SendCounters(m) ==
    <<m.emails_total, m.emails_successful, m.emails_failed, m.duration_count,
      m.failed_emails, m.consecutive_failures>>

\* C17: a call rejected before its transaction starts (ECONNECTION from a
\* failed probe, EINVALIDEMAIL, ERATELIMIT) leaves emails_total,
\* emails_successful, emails_failed, the duration count, the failed_emails
\* ledger and the global consecutive_failures unchanged: neither the step
\* that rejects it nor any step taken while it is before its transaction
\* changes them.
C17_Theorem ==
    [][/\ \A c \in Calls :
             RejectedEarly(c) => SendCounters(metrics') = SendCounters(metrics)
       /\ (\A c \in Calls : pc[c] \in {"idle", "probe", "ratelimit"})
             => SendCounters(metrics') = SendCounters(metrics)]_vars

\* A call has been rejected for an invalid address after an earlier send failed.
C17_Witness ==
    \E c \in Calls :
        /\ pc[c] = "idle"
        /\ result[c].code = "EINVALIDEMAIL"
        /\ SendCounters(metrics) = <<1, 0, 1, 1, 1, 1>>

\* ------------------------------------------------------------------ C18
\* The probe of call c fails in this step.
ProbeFails(c) == pc[c] = "probe" /\ Settles(c) /\ connections'[c] = 0

\* C18: when the probe fails, sendMail rejects with code ECONNECTION, message
\* 'SMTP connection failed, cannot send email' and type connection_error
\* with the configured host and port; last_email_status is 'failure',
\* connection_errors has risen by exactly one and errors_by_type.connection
\* by more than one, and neither a transaction connection nor a command was
\* attempted (the call is over, having opened no socket).
C18_Theorem ==
    [][\A c \in Calls :
          ProbeFails(c) =>
              /\ result'[c].status = "rejected"
              /\ result'[c].code = "ECONNECTION"
              /\ result'[c].message = "SMTP connection failed, cannot send email"
              /\ result'[c].type = "connection_error"
              /\ result'[c].context = [host |-> config.host, port |-> config.port]
              /\ metrics'.last_email_status = "failure"
              /\ metrics'.connection_errors = metrics.connection_errors + 1
              /\ metrics'.errors_connection > metrics.errors_connection + 1
              /\ metrics'.active_connections = metrics.active_connections
              /\ ~socket'[c]
              /\ SendCounters(metrics') = SendCounters(metrics)]_vars

\* The first call of a fresh instance was rejected because its probe timed out.
C18_Witness ==
    \E c \in Calls :
        /\ pc[c] = "idle"
        /\ result[c] = Rejected("ECONNECTION", "SMTP connection failed, cannot send email")
        /\ connections[c] = 0
        /\ metrics.connection_errors = 1
        /\ metrics.errors_connection = 2
        /\ metrics.emails_total = 0
        /\ metrics.last_email_status = "failure"

\* ------------------------------------------------------------------ C19
\* This step is a call of verifyConnection() by the application.
VerifyStep == sends' = sends + 1 /\ pc' = pc

\* What the call resolved with, and what it did besides counting errors.
VerifyOutcome ==
    /\ verified' \in {"true", "false"}
    /\ (verified' = "true") <=>
           (metrics'.active_connections = metrics.active_connections + 1)
    /\ verified' = "true" =>
           /\ metrics'.connection_errors = metrics.connection_errors
           /\ metrics'.errors_connection = metrics.errors_connection
           /\ metrics'.last_email_status = metrics.last_email_status
    /\ verified' = "false" =>
           /\ metrics'.active_connections = metrics.active_connections
           /\ metrics'.connection_errors = metrics.connection_errors + 1
           /\ metrics'.last_email_status = "failure"

\* C19 as stated: verifyConnection never rejects; it resolves true exactly
\* when the probe connection was established, and false on any connection
\* error or timeout, with last_email_status 'failure' and
\* errors_by_type.connection incremented by one.
C19_Original ==
    [][VerifyStep =>
          /\ VerifyOutcome
          /\ verified' = "false" =>
                metrics'.errors_connection = metrics.errors_connection + 1]_vars

\* C19 (amended): as stated, except that errors_by_type.connection rises by
\* one only when the probe times out (which is counted under
\* errors_by_type.timeout as well); when the socket reports an error it rises
\* by two, once in the socket's handler and once in verifyConnection.
C19_Theorem ==
    [][VerifyStep =>
          /\ VerifyOutcome
          /\ verified' = "false" =>
                metrics'.errors_connection = metrics.errors_connection
                    + (IF metrics'.errors_timeout = metrics.errors_timeout + 1
                       THEN 1 ELSE 2)]_vars

\* The application's first verifyConnection() resolved false on a socket error.
C19_Witness ==
    /\ verified = "false"
    /\ sends = 1
    /\ metrics.connection_errors = 1
    /\ metrics.errors_connection = 2
    /\ metrics.errors_timeout = 0
    /\ metrics.last_email_status = "failure"

\* ------------------------------------------------------------------ C20
\* A connection probe succeeds in this step: a verifyConnection() of the
\* application, or the one sendMail runs first.
ProbeSucceeds ==
    \/ VerifyStep /\ verified' = "true"
    \/ \E c \in Calls : pc[c] = "probe" /\ connections'[c] = connections[c] + 1

\* C20: every probe that succeeds raises active_connections by one, and
\* ending the probe socket does not lower it; so on a fresh instance, after
\* one sendMail rejected for an invalid address, active_connections is 1.
C20_Theorem ==
    /\ [][ProbeSucceeds =>
              metrics'.active_connections = metrics.active_connections + 1]_vars
    /\ [](\A c \in Calls :
              sends = 1 /\ result[c].code = "EINVALIDEMAIL"
                  => metrics.active_connections = 1)

\* The first call of a fresh instance was rejected for an invalid address.
C20_Witness ==
    \E c \in Calls :
        /\ sends = 1
        /\ pc[c] = "idle"
        /\ result[c].code = "EINVALIDEMAIL"
        /\ connections[c] = 1
        /\ metrics.active_connections = 1

\* ------------------------------------------------------------------ C21
\* One RCPT TO per address of a list, in the order of the list.
RcptTo(list) == [i \in DOMAIN list |-> Cmd("RCPT TO", list[i])]

\* The commands of one transaction, in the order the claim gives.
Script(cfg, o) ==
    <<Cmd("EHLO", cfg.host)>>
        \o (IF cfg.secure = FALSE THEN <<Cmd("STARTTLS", "")>> ELSE << >>)
        \o <<Cmd("AUTH LOGIN", ""), Cmd("base64", "user"), Cmd("base64", "pass")>>
        \o <<Cmd("MAIL FROM", "from")>>
        \o RcptTo(o.to) \o RcptTo(o.cc) \o RcptTo(o.bcc)
        \o <<Cmd("DATA", ""), Cmd("payload", "")>>

Times(c, verb) == Cardinality({i \in DOMAIN wire[c] : wire[c][i].verb = verb})

C23_Theorem ==
    ~RL.perRecipient =>
        /\ rateLimits = << >>
        /\ metrics.rate_limit_exceeded_total = 0
        /\ metrics.banned_recipients_count = 0
        /\ metrics.errors_rate_limit = 0
        /\ \A c \in Calls : pc[c] # "ratelimit" /\ result[c].code # "ERATELIMIT"

\* With perRecipient false and burstLimit 2, a send to one recipient failed
\* and two more to it succeeded, all at the same instant.
C23_Witness ==
    /\ ~RL.perRecipient
    /\ RL.burstLimit = 2
    /\ now = 0
    /\ metrics.emails_failed = 1
    /\ metrics.emails_successful = 2
    /\ ErrorCount(metrics, A) = 1
    /\ ErrorCount(metrics, B) = 0
    /\ \A c \in Calls : pc[c] = "idle"

\* ------------------------------------------------------------------- C24
\* The type of details.type that SendResult declares.
ErrorKind ==
    {"connection_error", "authentication_error", "rate_limit_error",
     "validation_error", "timeout_error", "attachment_error", "command_error",
     "unknown_error"}

\* C24: every error with which sendMail rejects has a details.type in
\* ErrorKind, and an error surfaced with code EUNKNOWN has type unknown_error.
C24_Claim ==
    \A c \in Calls :
        result[c].status = "rejected" =>
            /\ result[c].type \in ErrorKind
            /\ result[c].code = "EUNKNOWN" => result[c].type = "unknown_error"

\* ------------------------------------------------------------------- C25
\* The claimed gate of an event of level L.
Gate(L) ==
    logFilePath # "" /\ (config.logging.level = "debug" \/ L = config.logging.level)

\* This step appends exactly this entry to the log file.
Writes(L, event) == logged' = Append(logged, [level |-> L, event |-> event])

\* The entries the log file holds.
Entries == {logged[i] : i \in DOMAIN logged}

RECURSIVE SplitLines(_, _)
SplitLines(text, line) ==
    IF text = << >> THEN <<line>>
    ELSE IF Len(text) >= 2 /\ text[1] = "CR" /\ text[2] = "LF"
    THEN <<line>> \o SplitLines(SubSeq(text, 3, Len(text)), << >>)
    ELSE SplitLines(Tail(text), Append(line, Head(text)))

\* What each line of the composer begins with, for a request with these
\* fields present.
Emitted(o) ==
    <<"MIME-Version: 1.0", "From: ", "To: ">>
    \o (IF o.cc # << >> THEN <<"Cc: ">> ELSE << >>)
    \o <<"Subject: ", "Content-Type: multipart/mixed; boundary=\"boundary\"", "",
         "--boundary", "Content-Type: text/plain; charset=utf-8", "", "text", "">>
    \o (IF o.attachments # << >>
        THEN <<"--boundary", "Content-Type: ",
               "Content-Disposition: attachment; filename=\"",
               "Content-Transfer-Encoding: ", "", "content", "">>
        ELSE << >>)
    \o <<"--boundary--", ".">>

\* The sanitizer is idempotent and its output has no control character.
Sanitizes(value) ==
    /\ sanitizeHeader(sanitizeHeader(value)) = sanitizeHeader(value)
    /\ \A i \in DOMAIN sanitizeHeader(value) : sanitizeHeader(value)[i] \notin Controls

\* C26: for every request that passes address validation, the lines of the
\* composed message are the ones the composer emits (none is begun by a
\* user-supplied value: subject, to, cc, or an attachment's filename,
\* contentType or encoding), no line holds a CR or LF, and the sanitizer is
\* idempotent with no CR, LF, TAB, VT or FF in its output.
C26_Claim ==
    /\ \A f \in {draft.subject, Join(draft.to), Join(draft.cc)} : Sanitizes(f)
    /\ mimeMessage # NoMessage =>
          LET lines == SplitLines(mimeMessage, << >>)
          IN  /\ \A n \in DOMAIN lines :
                    \A i \in DOMAIN lines[n] : lines[n][i] \notin {"CR", "LF"}
              /\ [n \in DOMAIN lines |->
                     IF lines[n] = << >> THEN "" ELSE lines[n][1]] = Emitted(draft)

FirstBad(c) ==
    LET rs == Recipients(options[c])
    IN  CHOOSE i \in DOMAIN rs :
            /\ ~validateEmail(rs[i])
            /\ \A j \in 1..(i - 1) : validateEmail(rs[j])

\* C28: sendMail evaluates its causes of rejection in the order probe,
\* validation of every recipient, rate-limit checks in recipient order. A
\* failed probe rejects with ECONNECTION whatever the recipients are; after a
\* successful probe an invalid recipient rejects with EINVALIDEMAIL naming the
\* first invalid one, with no rate-limit state created or changed; a
\* rate-limit rejection names the recipient the loop stands at, every
\* recipient being valid and every earlier one admitted by its own check.
C28_Theorem ==
    /\ [](\A c \in Calls : pc[c] = "ratelimit" =>
             LET rs == Recipients(options[c])
             IN  /\ \A i \in DOMAIN rs : validateEmail(rs[i])
                 /\ \A j \in 1..(idx[c] - 1) :
                       /\ rs[j] \in DOMAIN rateLimits
                       /\ admitTimes[rs[j]] # << >>
                       /\ admitTimes[rs[j]][Len(admitTimes[rs[j]])] = now)
    /\ [][\A c \in Calls :
             LET rs == Recipients(options[c])
                 bad == \E i \in DOMAIN rs : ~validateEmail(rs[i])
             IN  /\ pc[c] \in {"idle", "probe"} => rateLimits' = rateLimits
                 /\ pc[c] = "probe" /\ pc'[c] # "probe" =>
                       IF connections'[c] = connections[c]
                       THEN /\ Settles(c)
                            /\ result'[c].code = "ECONNECTION"
                            /\ culprit'[c] = ""
                       ELSE IF bad
                       THEN /\ Settles(c)
                            /\ result'[c].code = "EINVALIDEMAIL"
                            /\ culprit'[c] = rs[FirstBad(c)]
                       ELSE ~Settles(c)
                 /\ RateLimited(c) =>
                       /\ pc[c] = "ratelimit"
                       /\ culprit'[c] = rs[idx[c]]
                 /\ Settles(c) /\ result'[c].code = "EINVALIDEMAIL" => pc[c] = "probe"]_vars

\* A call listing a banned recipient ahead of two invalid ones was rejected
\* for the first invalid one.
C28_Witness ==
    \E c \in Calls :
        /\ pc[c] = "idle"
        /\ result[c].code = "EINVALIDEMAIL"
        /\ culprit[c] = Y
        /\ A \in DOMAIN rateLimits
        /\ rateLimits[A].banned
        /\ metrics.connection_errors = 0

\* ------------------------------------------------------------------- C29
\* The name under which the claim reports a failure during this command.
NameOf(verb) ==
    CASE verb \in {"AUTH LOGIN", "base64"} -> "AUTH"
      [] verb = "payload" -> "DATA"
      [] OTHER -> verb

\* C29: the error of a failed transaction reports, as lastCommand, the
\* command in progress: '' when the connection fails before EHLO, otherwise
\* the name of the last command written ('AUTH' for each of the three
\* authentication writes, 'DATA' for the DATA command and for the payload,
\* including a failure to load attachments); an attachment error comes only
\* after MAIL FROM, every RCPT TO and DATA were written; the ledger entry
\* records the same command.
C29_Theorem ==
    [][\A c \in Calls :
          TransactionFails(c) =>
              LET w == wire[c]
                  rs == Recipients(options[c])
              IN  /\ report'[c].lastCommand =
                         (IF w = << >> THEN "" ELSE NameOf(w[Len(w)].verb))
                  /\ report'[c].command = report'[c].lastCommand
                  /\ pc[c] = "connecting" <=> w = << >>
                  /\ result'[c].code = "EATTACHMENT" =>
                         /\ w[Len(w)].verb = "DATA"
                         /\ Times(c, "MAIL FROM") = 1
                         /\ Times(c, "RCPT TO") = Len(rs)
                         /\ report'[c].lastCommand = "DATA"]_vars

\* A send to three recipients failed loading its attachments: DATA was the
\* last command written, after three RCPT TO, and is the one reported.
C29_Witness ==
    \E c \in Calls :
        /\ pc[c] = "idle"
        /\ result[c].code = "EATTACHMENT"
        /\ report[c] = [lastCommand |-> "DATA", command |-> "DATA"]
        /\ Times(c, "RCPT TO") = 3
        /\ wire[c][Len(wire[c])].verb = "DATA"

\* ------------------------------------------------------------------- C30
\* C30: the engine never inspects reply codes. While a command is
\* outstanding any response, a 550 as well as a 250, lets sendMail go on; a
\* step in which a 5xx reply arrives writes the next command of the script,
\* or completes the send, or fails on the attachments, and never rejects on
\* account of the reply; and a send whose every command was answered resolves
\* with success, counts one successful send and no failed one, and resets
\* consecutiveFailures of its recipients, whatever was answered.
C30_Theorem ==
    /\ [](\A c \in Calls, reply \in Replies :
             pc[c] = "dialogue" /\ awaiting[c] > 0 => ENABLED Reply(c, reply))
    /\ [][\A c \in Calls :
             /\ refused'[c] # refused[c] /\ refused'[c] # "" =>
                   \/ Succeeds(c)
                   \/ /\ pc'[c] = "dialogue"
                      /\ wire'[c] = SubSeq(Script(config, options[c]), 1, Len(wire[c]) + 1)
                      /\ metrics' = metrics
                   \/ result'[c].code = "EATTACHMENT"
             /\ Succeeds(c) =>
                   /\ wire[c] = Script(config, options[c])
                   /\ result'[c] = Resolved
                   /\ metrics'.emails_successful = metrics.emails_successful + 1
                   /\ metrics'.emails_failed = metrics.emails_failed
                   /\ \A r \in Range(Recipients(options[c])) \cap DOMAIN rateLimits' :
                         rateLimits'[r].consecutiveFailures = 0]_vars

\* After a failed send to A, a send to A whose DATA command the relay
\* answered 550 has resolved: counted successful, A's failures reset.
C30_Witness ==
    \E c \in Calls :
        /\ pc[c] = "idle"
        /\ result[c] = Resolved
        /\ refused[c] = "DATA"
        /\ metrics.emails_failed = 1
        /\ metrics.emails_successful = 1
        /\ rateLimits[A].consecutiveFailures = 0

\* ------------------------------------------------------------------- C31
\* C31: a call rejected with ERATELIMIT because of one recipient leaves
\* count, rapidAttempts and lastAttempt of every other recipient of the
\* request as they were before the call (a recipient that had no state has
\* none).
C31_Claim ==
    [][\A c \in Calls :
          CheckStep(c) /\ RateLimited(c) =>
              \A r \in Range(Recipients(options[c])) \ {Cur(c)} :
                  IF r \in DOMAIN entry[c]
                  THEN /\ rateLimits'[r].count = entry[c][r].count
                       /\ rateLimits'[r].rapidAttempts = entry[c][r].rapidAttempts
                       /\ rateLimits'[r].lastAttempt = entry[c][r].lastAttempt
                  ELSE r \notin DOMAIN rateLimits']_vars


\* ------------------------------------------------------------------ C32
\* The check of call c meets a recipient whose ban is still running.
DuringBan(c) == CheckStep(c) /\ ActiveBan(Pre(c), now)

\* C32: a ban is bounded by the expiry fixed when it was imposed: for a
\* recipient that is banned with now < banExpiry, a rejected send attempt
\* leaves banExpiry and banned_recipients_count unchanged, so attempts made
\* during a ban cannot extend it.
C32_Claim ==
    [][\A c \in Calls :
          DuringBan(c) /\ RateLimited(c) =>
              /\ Post(c).banExpiry = Pre(c).banExpiry
              /\ metrics'.banned_recipients_count =
                     metrics.banned_recipients_count]_vars


\* ------------------------------------------------------------------ C33
\* The recipients whose banned flag is set.
Banned == {r \in DOMAIN rateLimits : rateLimits[r].banned}

\* C33: in every state reachable through sendMail calls,
\* banned_recipients_count is at least the number of recipients whose banned
\* flag is true, and therefore never negative; and banned = true implies
\* banExpiry > 0 for every recipient.
C33_Theorem ==
    /\ metrics.banned_recipients_count >= Cardinality(Banned)
    /\ metrics.banned_recipients_count >= 0
    /\ \A r \in Banned : rateLimits[r].banExpiry > 0

\* The expired ban of a recipient has been cleared: the gauge has been
\* raised and lowered again.
C33_Witness ==
    /\ \E r \in DOMAIN rateLimits \ Banned : rateLimits[r].banExpiry > 0
    /\ metrics.banned_recipients_count = 0


\* ------------------------------------------------------------------ C34
RECURSIVE Sum(_, _)
Sum(f, S) ==
    IF S = {} THEN 0
    ELSE LET r == CHOOSE x \in S : TRUE IN f[r] + Sum(f, S \ {r})

\* The sum of error_count_by_recipient.
ErrorTotal(m) == Sum(m.error_count_by_recipient, DOMAIN m.error_count_by_recipient)

Contended(c) ==
    /\ Cur(c) \in DOMAIN entry[c]
    /\ entry[c][Cur(c)].count = RL.burstLimit - 1
    /\ Pre(c).count > entry[c][Cur(c)].count
    /\ Pre(c).lastReset = entry[c][Cur(c)].lastReset
    /\ Post(c).lastReset = Pre(c).lastReset

\* C35: when several sendMail calls on one instance run interleaved, the
\* rate-limit evaluation of one call, from address validation through the
\* last checkRateLimit, runs without interruption (no other call takes a step
\* while it runs), so count <= burstLimit holds for every recipient and of
\* two concurrent sends to a recipient with one remaining admission the one
\* checked second is rejected; and emails_total = emails_successful +
\* emails_failed holds in every interleaving.
C35_Theorem ==
    /\ [](\A r \in DOMAIN rateLimits : rateLimits[r].count <= RL.burstLimit)
    /\ [](metrics.emails_total = metrics.emails_successful + metrics.emails_failed)
    /\ [][\A c \in Concurrent :
             /\ pc[c] = "ratelimit" =>
                    \A d \in Concurrent \ {c} :
                        /\ pc'[d] = pc[d]
                        /\ options'[d] = options[d]
                        /\ result'[d] = result[d]
             /\ CheckStep(c) /\ Contended(c) => RateLimited(c)]_vars

\* Two calls were pending with one admission left for a@b.co: one of them is
\* in its transaction, the other has been rejected at the burst limit.
C35_Witness ==
    \E c \in Concurrent, d \in Concurrent :
        /\ c # d
        /\ pc[c] = "idle"
        /\ result[c] = Rejected("ERATELIMIT", BurstMsg)
        /\ pc[d] \in {"connecting", "dialogue"}
        /\ A \in Range(Recipients(options[d]))
        /\ A \in DOMAIN entry[c] \cap DOMAIN entry[d]
        /\ entry[c][A].count = RL.burstLimit - 1
        /\ entry[d][A].count = RL.burstLimit - 1
        /\ entry[c][A].lastReset = rateLimits[A].lastReset
        /\ rateLimits[A].count = RL.burstLimit


\* ------------------------------------------------------------------ C36
\* C36: every sendMail rejected with ERATELIMIT, whichever of the four causes
\* fired (rapid attempts, active ban, consecutive failures, burst limit), sets
\* last_email_status to 'failure' and increments errors_by_type.rate_limit by
\* exactly one.
C36_Claim ==
    [][\A c \in Calls :
          CheckStep(c) /\ RateLimited(c) =>
              /\ metrics'.last_email_status = "failure"
              /\ metrics'.errors_rate_limit = metrics.errors_rate_limit + 1]_vars


\* ------------------------------------------------------------------ C37
\* C37: sendMail resolves with success true only after the relay has replied
\* to the message payload itself: the response that each sendCommand returns
\* is a reply the relay sent after receiving that command, also when the
\* relay sends a greeting on connect or delivers a reply in more than one
\* data event.
C37_Claim ==
    /\ [](\A c \in Calls : \A i \in DOMAIN heard[c] : heard[c][i] = i)
    /\ [][\A c \in Calls :
             Succeeds(c) => /\ Read(c) = Len(wire[c])
                            /\ Head(inbox[c]) = Len(wire[c])]_vars


Repeat(c) ==
    \E j \in 1..(idx[c] - 1) : Recipients(options[c])[j] = Cur(c)

\* C39: each distinct recipient address of one sendMail is rate-limit checked
\* and counted once: an address that appears more than once across To, Cc and
\* Bcc consumes one unit of its burst count and one rapid attempt per send
\* (the turn of the loop at a repeated address changes no limit state and
\* rejects nothing), and on a failed transaction its consecutiveFailures and
\* error_count_by_recipient rise by one.
C39_Claim ==
    [][\A c \in Calls :
          /\ CheckStep(c) /\ Repeat(c) =>
                /\ rateLimits' = rateLimits
                /\ ~RateLimited(c)
          /\ TransactionFails(c) =>
                \A r \in Listed(c) \cap DOMAIN rateLimits :
                    /\ rateLimits'[r].consecutiveFailures =
                           rateLimits[r].consecutiveFailures + 1
                    /\ ErrorCount(metrics', r) = ErrorCount(metrics, r) + 1]_vars

============================================================================
